---- MODULE Spec2Model ----
(***************************************************************************)
(* Model of the scoring / aggregation / risk-override core of the Crypto   *)
(* Analyst agent swarm (src/agents/base_agent.py,                          *)
(* src/scripts/aggregate_votes.py, src/scripts/risk_engine.py).            *)
(*                                                                         *)
(* Conventions                                                             *)
(*  - a Python dict is a TLA+ function whose DOMAIN is the dict's key set; *)
(*    d.get(k, default) is Get(d, k, default), d[k] = v is Put(d, k, v);   *)
(*  - a Python float is an exact rational <<n, d>> with d > 0 in lowest    *)
(*    terms (floating-point rounding is not modelled);                     *)
(*  - indicator values are kept in hundredths (0.8 is 80, 7 is 700);       *)
(*  - an Optional[...] result is a sequence of length 0 (None) or 1.       *)
(***************************************************************************)
EXTENDS Integers, Sequences, FiniteSets, TLC

VARIABLES
    \* ---- risk engine (risk_engine.py) ----
    rConsensus,     \* the consensus record for the day (data/consensus/<date>.json)
    rInput,         \* the dict object passed to the last apply_risk_overrides call, after the call
    rBefore,        \* the value of that dict object before the call
    rIndicators,    \* the indicator map passed to the last call
    rConfig,        \* config/action_map.yaml: <<>> unreadable, <<doc>> the parsed document
    rPasses,        \* number of risk passes run so far
    \* ---- threshold mapping (aggregate_votes.py) ----
    mFile,          \* config/action_map.yaml: <<>> unreadable, <<doc>> the parsed document
    mTable,         \* the action map handed to map_consensus_to_action
    mValue,         \* the consensus percentage handed to it
    mResult,        \* its return value (sequence of length 0 before the call)
    \* ---- one voter (base_agent.py) ----
    aSpec,          \* BaseAgent.spec
    aIndicators,    \* BaseAgent.indicators
    aWeights,       \* BaseAgent.weights
    aWeighted,      \* the mapping last returned by weight_signals / handed to calculate_composite_score
    aScore,         \* the last composite score
    aArg,           \* the score last handed to determine_action
    aAction,        \* the last action label
    aCalls,         \* number of weight_signals calls made on the voter
    aPc,            \* position of the voter: "new", "weighted", "scored", "done" ("idle": unused)
    \* ---- aggregation stage (aggregate_votes.py) ----
    gOutputs,       \* data/outputs/<agent>/<date>.json in listing order: <<>> unparsable, <<vote>>
    gConfigFile,    \* config/action_map.yaml: <<>> unreadable, <<doc>> the parsed document
    gConsensusFile, \* data/consensus/<date>.json: <<>> absent, <<consensus>>
    gVotes,         \* the vote list last handed to aggregate_votes
    gResult,        \* outcome of the last aggregate_votes call: kind "none", "raised" or "ok"
    gExit,          \* exit status of main: -1 while it has not run
    \* ---- indicator refresh (refresh_indicators.py) ----
    iDay,           \* datetime.now().day as last read by fetch_pi_cycle (0: not read)
    iCache,         \* INDICATOR_CACHE: fetcher name -> cached indicator of the day
    iTask,          \* the call in progress or last made: "none", a fetcher, "fetch_with_retry", "signal"
    iMaxRetries,    \* max_retries of the fetch_with_retry call
    iRetry,         \* GET attempts made by that call
    iReply,         \* the answer to its last GET (sequence of length 0 or 1)
    iFetch,         \* its outcome: kind "none", "running", "returned" (with ok, data) or "raised"
    iArgs,          \* <<indicator_name, value>> last handed to get_signal_from_value
    iSignal,        \* its return value ("" before any call)
    iResult,        \* the indicator returned by the fetcher (sequence of length 0 or 1)
    iCalls,         \* fetcher calls made in this process
    \* ---- the persisted indicator set and its two loaders (run_agent.py, risk_engine.py) ----
    dFiles,         \* data/indicators/<dir>/<date>.json: dir -> <<>> unparsable, <<document>>
    dVoter,         \* return value of run_agent.load_indicators (sequence of length 0 or 1)
    dRisk,          \* return value of risk_engine.load_indicators (sequence of length 0 or 1)
    \* ---- agent runs of one date (run_agent.py) ----
    oPc,            \* position of each run: "idle", "analyzed", "opened", "saved"
    oOutput,        \* agent name -> the output dict of its analyze() (sequence of length 0 or 1)
    oFiles,         \* data/outputs/<dir>/<date>.json: dir -> <<>> truncated, <<vote>>
    oLoaded,        \* return value of load_agent_outputs (sequence of length 0 or 1)
    \* ---- posting a file (post_to_discord.py) ----
    pFile,          \* the file to post: <<>> absent, <<length of its content>>
    pSent,          \* lengths of the messages handed to Discord, in order
    pResult         \* return value of post_file: <<>> before the call, <<TRUE>>, <<FALSE>>

riskVars  == <<rConsensus, rInput, rBefore, rIndicators, rConfig, rPasses>>
mapVars   == <<mFile, mTable, mValue, mResult>>
agentVars == <<aSpec, aIndicators, aWeights, aWeighted, aScore, aArg, aAction, aCalls, aPc>>
aggVars   == <<gOutputs, gConfigFile, gConsensusFile, gVotes, gResult, gExit>>
refreshVars == <<iDay, iCache, iTask, iMaxRetries, iRetry, iReply, iFetch, iArgs, iSignal,
                 iResult, iCalls>>
loadVars  == <<dFiles, dVoter, dRisk>>
runVars   == <<oPc, oOutput, oFiles, oLoaded>>
postVars  == <<pFile, pSent, pResult>>
vars      == <<riskVars, mapVars, agentVars, aggVars, refreshVars, loadVars, runVars, postVars>>

\* the variables outside each component
lateVars      == <<loadVars, runVars, postVars>>
restOfRisk    == <<mapVars, agentVars, aggVars, refreshVars, lateVars>>
restOfMap     == <<riskVars, agentVars, aggVars, refreshVars, lateVars>>
restOfAgent   == <<riskVars, mapVars, aggVars, refreshVars, lateVars>>
restOfAgg     == <<riskVars, mapVars, agentVars, refreshVars, lateVars>>
restOfRefresh == <<riskVars, mapVars, agentVars, aggVars, lateVars>>
earlyVars     == <<riskVars, mapVars, agentVars, aggVars, refreshVars>>
restOfLoad    == <<earlyVars, runVars, postVars>>
restOfRun     == <<earlyVars, loadVars, postVars>>
restOfPost    == <<earlyVars, loadVars, runVars>>

----------------------------------------------------------------------------
(* Bounds of the model *)

MaxPasses   == 2    \* risk passes per behaviour
MaxBands    == 2    \* bands in a generated threshold table
MaxValue    == 7    \* consensus percentages 0, 10 .. 10 * MaxValue are tried
MaxWeight   == 2    \* declared weights range over -1 .. MaxWeight
MaxCalls    == 2    \* weight_signals calls per voter
MaxVotes    == 3    \* agent output files present for the date
MaxRetries  == 3    \* max_retries handed to fetch_with_retry ranges over 0 .. MaxRetries
MaxContent  == 4100  \* longest file content posted, in characters
MaxFetches  == 2    \* fetcher calls per process

----------------------------------------------------------------------------
(* Python dicts *)

EmptyDict == <<>>

Get(d, k, default) == IF k \in DOMAIN d THEN d[k] ELSE default

Put(d, k, v) == [x \in (DOMAIN d) \cup {k} |-> IF x = k THEN v ELSE d[x]]

----------------------------------------------------------------------------
(* Exact rationals standing for Python floats *)

Abs(i) == IF i < 0 THEN -i ELSE i

RECURSIVE GCD(_, _)
GCD(a, b) == IF b = 0 THEN a ELSE GCD(b, a % b)

\* the rational n/d (d # 0) in lowest terms with a positive denominator
Rat(n, d) ==
    LET g == GCD(Abs(n), Abs(d))
        s == IF d < 0 THEN -1 ELSE 1
    IN  <<(s * n) \div g, (s * d) \div g>>

RInt(i)    == <<i, 1>>
RAdd(x, y) == Rat(x[1] * y[2] + y[1] * x[2], x[2] * y[2])
RMul(x, y) == Rat(x[1] * y[1], x[2] * y[2])
RDiv(x, y) == Rat(x[1] * y[2], x[2] * y[1])
RLt(x, y)  == x[1] * y[2] < y[1] * x[2]
RLe(x, y)  == x[1] * y[2] <= y[1] * x[2]
RGe(x, y)  == RLe(y, x)
RMin(x, y) == IF RLt(y, x) THEN y ELSE x      \* Python min(x, y): y only if y < x
RMax(x, y) == IF RLt(x, y) THEN y ELSE x      \* Python max(x, y): y only if y > x

RECURSIVE RSum(_)
RSum(s) == IF s = <<>> THEN RInt(0) ELSE RAdd(s[1], RSum(Tail(s)))

\* the elements of a finite set of strings as a sequence (dict iteration order
\* is irrelevant wherever this is used: sums and key sets)
RECURSIVE SetToSeq(_)
SetToSeq(S) == IF S = {} THEN <<>>
               ELSE LET x == CHOOSE y \in S : TRUE IN <<x>> \o SetToSeq(S \ {x})

----------------------------------------------------------------------------
(* aggregate_votes.py *)

DefaultEmoji == "yellow"      \* the emoji literal of the 'hold' default

\* the built-in table load_config falls back to
DefaultActionMap ==
    [consensus_to_action |->
        << [max |-> 40, action |-> "de-risk", emoji |-> "red"],
           [min |-> 40, max |-> 60, action |-> "hold", emoji |-> "yellow"],
           [min |-> 60, action |-> "buy", emoji |-> "green"] >>]

\* JSON null / Python None held in a numeric field of a record
PyNone == <<>>

\* the value yaml.safe_load returns for an empty document (Python None)
NoneDocument == [py_none |-> TRUE]

IsNone(x) == "py_none" \in DOMAIN x

\* load_config falling back to a table without bands
load_config_EmptyFallback(file) ==
    IF file = <<>> THEN [consensus_to_action |-> <<>>] ELSE file[1]

\* A configuration file is a sequence: <<>> when opening or parsing it fails,
\* <<doc>> when yaml.safe_load returns doc.
load_config(file) == IF file = <<>> THEN DefaultActionMap ELSE file[1]

\* the files data/outputs/<agent>/<date>.json that parse, in listing order
RECURSIVE load_agent_outputs(_)
load_agent_outputs(files) ==
    IF files = <<>> THEN <<>>
    ELSE IF Head(files) = <<>> THEN load_agent_outputs(Tail(files))
         ELSE <<Head(files)[1]>> \o load_agent_outputs(Tail(files))

\* sum(...) adds a None score to a number: TypeError
calculate_consensus_pct_raises_OnEmpty(agent_outputs) ==
    \/ agent_outputs = <<>>
    \/ \E i \in 1..Len(agent_outputs) :
           Get(agent_outputs[i], "score", RInt(50)) = PyNone

\* sum(...) adds a None score to a number: TypeError
calculate_consensus_pct_raises(agent_outputs) ==
    /\ agent_outputs # <<>>
    /\ \E i \in 1..Len(agent_outputs) :
           Get(agent_outputs[i], "score", RInt(50)) = PyNone

\* the average weighted by each vote's confidence
calculate_consensus_pct_ConfidenceWeighted(agent_outputs) ==
    IF agent_outputs = <<>> THEN RInt(50)
    ELSE LET Conf(o) == LET c == Get(o, "confidence", Rat(1, 2))
                        IN  IF c = PyNone THEN Rat(1, 2) ELSE c
             total_score ==
                 RSum([i \in 1..Len(agent_outputs) |->
                          RMul(Get(agent_outputs[i], "score", RInt(50)),
                               Conf(agent_outputs[i]))])
             total_conf ==
                 RSum([i \in 1..Len(agent_outputs) |-> Conf(agent_outputs[i])])
         IN  IF total_conf = RInt(0) THEN RInt(50)
             ELSE RDiv(total_score, total_conf)

calculate_consensus_pct(agent_outputs) ==
    IF agent_outputs = <<>> THEN RInt(50)
    ELSE LET total_score ==
                 RSum([i \in 1..Len(agent_outputs) |->
                          Get(agent_outputs[i], "score", RInt(50))])
         IN  RDiv(total_score, RInt(Len(agent_outputs)))

\* the dict returned for a matching band
BandResult(mapping) ==
    [action |-> Get(mapping, "action", "hold"),
     emoji  |-> Get(mapping, "emoji", DefaultEmoji)]

\* the if / elif / elif chain of the loop body: TRUE when some branch returns
BandSelected(consensus_pct, mapping) ==
    IF "max" \in DOMAIN mapping /\ RLt(consensus_pct, RInt(mapping["max"]))
    THEN TRUE
    ELSE IF ("min" \in DOMAIN mapping /\ RGe(consensus_pct, RInt(mapping["min"])))
            /\ ("max" \in DOMAIN mapping /\ RLt(consensus_pct, RInt(mapping["max"])))
    THEN TRUE
    ELSE IF "min" \in DOMAIN mapping /\ RGe(consensus_pct, RInt(mapping["min"]))
            /\ "max" \notin DOMAIN mapping
    THEN TRUE
    ELSE FALSE

RECURSIVE ScanBands(_, _, _)
ScanBands(consensus_pct, consensus_map, i) ==
    IF i > Len(consensus_map)
    THEN [action |-> "hold", emoji |-> DefaultEmoji]
    ELSE IF BandSelected(consensus_pct, consensus_map[i])
         THEN BandResult(consensus_map[i])
         ELSE ScanBands(consensus_pct, consensus_map, i + 1)

map_consensus_to_action(consensus_pct, action_map) ==
    LET consensus_map == Get(action_map, "consensus_to_action", <<>>)
    IN  ScanBands(consensus_pct, consensus_map, 1)

\* action_map.get(...) on None: AttributeError
map_consensus_to_action_raises(action_map) == IsNone(action_map)

VoteAction(output) == Get(output, "action", "HOLD")

\* action_counts as a mapping action -> number of votes
ActionCounts(agent_outputs) ==
    [a \in {VoteAction(agent_outputs[i]) : i \in 1..Len(agent_outputs)} |->
        Cardinality({i \in 1..Len(agent_outputs) : VoteAction(agent_outputs[i]) = a})]

\* the keys of action_counts in dict (insertion) order
RECURSIVE ActionOrder(_)
ActionOrder(agent_outputs) ==
    IF agent_outputs = <<>> THEN <<>>
    ELSE LET n     == Len(agent_outputs)
             front == ActionOrder(SubSeq(agent_outputs, 1, n - 1))
             a     == VoteAction(agent_outputs[n])
         IN  IF \E j \in 1..Len(front) : front[j] = a THEN front
             ELSE Append(front, a)

\* max(action_counts.values())
MaxCount(action_counts) ==
    CHOOSE c \in {action_counts[a] : a \in DOMAIN action_counts} :
        \A a \in DOMAIN action_counts : action_counts[a] <= c

\* the majority pick keeping the last maximal item instead of the first
MajorityAction_LastMax(action_counts, order) ==
    LET max_count == MaxCount(action_counts)
        last_max  == CHOOSE j \in 1..Len(order) :
                         /\ action_counts[order[j]] = max_count
                         /\ \A k \in (j + 1)..Len(order) : action_counts[order[k]] < max_count
    IN  order[last_max]

\* max(action_counts.items(), key=lambda x: x[1])[0]: max keeps the first
\* maximal item in dict order
MajorityAction(action_counts, order) ==
    LET max_count == MaxCount(action_counts)
        first_max == CHOOSE j \in 1..Len(order) :
                         /\ action_counts[order[j]] = max_count
                         /\ \A k \in 1..(j - 1) : action_counts[order[k]] < max_count
    IN  order[first_max]

\* agreement measured against the number of distinct actions
analyze_agent_distribution_Plurality(agent_outputs) ==
    IF Len(agent_outputs) <= 1
    THEN [distribution |-> EmptyDict, agreement_level |-> RInt(1)]
    ELSE LET action_counts == ActionCounts(agent_outputs)
             order         == ActionOrder(agent_outputs)
             max_count     == MaxCount(action_counts)
         IN  [distribution    |-> action_counts,
              agreement_level |-> Rat(max_count, Cardinality(DOMAIN action_counts)),
              majority_action |-> MajorityAction(action_counts, order)]

analyze_agent_distribution(agent_outputs) ==
    IF Len(agent_outputs) <= 1
    THEN [distribution |-> EmptyDict, agreement_level |-> RInt(1)]
    ELSE LET action_counts == ActionCounts(agent_outputs)
             order         == ActionOrder(agent_outputs)
             max_count     == MaxCount(action_counts)
         IN  [distribution    |-> action_counts,
              agreement_level |-> Rat(max_count, Len(agent_outputs)),
              majority_action |-> MajorityAction(action_counts, order)]

aggregate_votes(agent_outputs, config) ==
    LET consensus_pct  == calculate_consensus_pct(agent_outputs)
        action_mapping == map_consensus_to_action(consensus_pct, config)
        distribution   == analyze_agent_distribution(agent_outputs)
        agent_votes    ==
            [i \in 1..Len(agent_outputs) |->
                [name       |-> Get(agent_outputs[i], "agent_name", "Unknown"),
                 score      |-> Get(agent_outputs[i], "score", RInt(50)),
                 action     |-> Get(agent_outputs[i], "action", "HOLD"),
                 confidence |-> Get(agent_outputs[i], "confidence", Rat(1, 2)),
                 rationale  |-> Get(agent_outputs[i], "rationale", "")]]
    IN  [date         |-> "today",
         timestamp    |-> "now",
         score        |-> consensus_pct,
         action       |-> action_mapping.action,
         emoji        |-> action_mapping.emoji,
         agent_votes  |-> agent_votes,
         distribution |-> distribution]

\* aggregate_votes raises what its first two calls raise
aggregate_votes_raises(agent_outputs, config) ==
    \/ calculate_consensus_pct_raises(agent_outputs)
    \/ map_consensus_to_action_raises(config)

\* the outcome of a call of aggregate_votes: an exception or the consensus
aggregate_votes_outcome(agent_outputs, config) ==
    IF aggregate_votes_raises(agent_outputs, config)
    THEN [kind |-> "raised"]
    ELSE [kind |-> "ok", value |-> aggregate_votes(agent_outputs, config)]

\* main aggregating whatever load_agent_outputs returned
aggregate_votes_main_NoGuard(outputs, config_file, consensus_file) ==
    LET config        == load_config(config_file)
        agent_outputs == load_agent_outputs(outputs)
        result        == aggregate_votes_outcome(agent_outputs, config)
    IN  IF result.kind = "raised"
        THEN [exit |-> 1, consensus_file |-> consensus_file,
              votes |-> agent_outputs, result |-> result]
        ELSE [exit |-> 0, consensus_file |-> <<result.value>>,
              votes |-> agent_outputs, result |-> result]

\* main: load_config, load_agent_outputs, the empty check, aggregate_votes,
\* save_consensus; any exception is caught and turned into exit status 1
aggregate_votes_main(outputs, config_file, consensus_file) ==
    LET config        == load_config(config_file)
        agent_outputs == load_agent_outputs(outputs)
        result        == aggregate_votes_outcome(agent_outputs, config)
    IN  IF agent_outputs = <<>>
        THEN [exit |-> 1, consensus_file |-> consensus_file,
              votes |-> agent_outputs, result |-> [kind |-> "none"]]
        ELSE IF result.kind = "raised"
        THEN [exit |-> 1, consensus_file |-> consensus_file,
              votes |-> agent_outputs, result |-> result]
        ELSE [exit |-> 0, consensus_file |-> <<result.value>>,
              votes |-> agent_outputs, result |-> result]

----------------------------------------------------------------------------
(* risk_engine.py *)

CbbiThreshold    == 80     \* 0.8
RainbowThreshold == 700    \* 7
PiCycleThreshold == 95     \* 0.95
RiskDefaultEmoji == "red"  \* the emoji literal used when the table has no de-risk emoji

\* risk_engine.load_config: an unreadable file gives the empty dict
risk_load_config(file) == IF file = <<>> THEN EmptyDict ELSE file[1]

\* check_cbbi_risk with a strict comparison
check_cbbi_risk_Strict(indicator) ==
    IF "value" \notin DOMAIN indicator THEN <<>>
    ELSE LET cbbi_value == indicator["value"]
         IN  IF cbbi_value > CbbiThreshold
             THEN << [flag        |-> "cbbi_high",
                      value       |-> cbbi_value,
                      threshold   |-> CbbiThreshold,
                      name        |-> "High CBBI",
                      description |-> <<"CBBI value of", cbbi_value>>,
                      emoji       |-> "warning"] >>
             ELSE <<>>

check_cbbi_risk(indicator) ==
    IF "value" \notin DOMAIN indicator THEN <<>>
    ELSE LET cbbi_value == indicator["value"]
         IN  IF cbbi_value >= CbbiThreshold
             THEN << [flag        |-> "cbbi_high",
                      value       |-> cbbi_value,
                      threshold   |-> CbbiThreshold,
                      name        |-> "High CBBI",
                      description |-> <<"CBBI value of", cbbi_value>>,
                      emoji       |-> "warning"] >>
             ELSE <<>>

check_rainbow_risk(indicator) ==
    IF "value" \notin DOMAIN indicator THEN <<>>
    ELSE LET band_value == indicator["value"]
         IN  IF band_value >= RainbowThreshold
             THEN << [flag        |-> "rainbow_top",
                      value       |-> band_value,
                      threshold   |-> RainbowThreshold,
                      name        |-> "Top Rainbow Band",
                      description |-> <<"BTC price is in band", band_value>>,
                      emoji       |-> "rainbow"] >>
             ELSE <<>>

check_pi_cycle_risk(indicator) ==
    IF "value" \notin DOMAIN indicator THEN <<>>
    ELSE LET pi_value == indicator["value"]
         IN  IF pi_value >= PiCycleThreshold
             THEN << [flag        |-> "pi_cycle_top",
                      value       |-> pi_value,
                      threshold   |-> PiCycleThreshold,
                      name        |-> "Pi-Cycle Near Top",
                      description |-> <<"Pi-Cycle value of", pi_value>>,
                      emoji       |-> "pi"] >>
             ELSE <<>>

\* next((m for m in table if m.get('action') == forced_action), {})
RECURSIVE FirstWithAction(_, _, _)
FirstWithAction(table, action, i) ==
    IF i > Len(table) THEN EmptyDict
    ELSE IF "action" \in DOMAIN table[i] /\ table[i]["action"] = action THEN table[i]
    ELSE FirstWithAction(table, action, i + 1)

\* OverrideAction reading the previous action only after it was overwritten
OverrideAction_LateRead(updated_consensus, forced_action, file) ==
    LET config          == risk_load_config(file)
        action_mapping  == FirstWithAction(Get(config, "consensus_to_action", <<>>),
                                           forced_action, 1)
        u2 == Put(updated_consensus, "action", forced_action)
        previous_action == Get(u2, "action", "hold")
        u1 == Put(u2, "original_action", previous_action)
        u3 == Put(u1, "emoji", Get(action_mapping, "emoji", RiskDefaultEmoji))
    IN  Put(u3, "risk_override", TRUE)

\* the branch that overrides the action (the body of `if forced_action and risk_flags`)
OverrideAction(updated_consensus, forced_action, file) ==
    LET config          == risk_load_config(file)
        action_mapping  == FirstWithAction(Get(config, "consensus_to_action", <<>>),
                                           forced_action, 1)
        previous_action == Get(updated_consensus, "action", "hold")
        u1 == Put(updated_consensus, "original_action", previous_action)
        u2 == Put(u1, "action", forced_action)
        u3 == Put(u2, "emoji", Get(action_mapping, "emoji", RiskDefaultEmoji))
    IN  Put(u3, "risk_override", TRUE)

\* updated_consensus = consensus: the caller's dict itself
CopyOf_Alias(consensus) == [obj |-> "same", items |-> consensus]

\* updated_consensus = consensus.copy(): a new dict object with the same items
CopyOf(consensus) == [obj |-> "fresh", items |-> consensus]

\* a pass without flags keeping the risk_override it finds
apply_risk_overrides_KeepOverride(consensus, indicators, file) ==
    LET cbbi_risk    == IF "Cbbi" \in DOMAIN indicators
                        THEN check_cbbi_risk(indicators["Cbbi"]) ELSE <<>>
        rainbow_risk == IF "Rainbow Bands" \in DOMAIN indicators
                        THEN check_rainbow_risk(indicators["Rainbow Bands"]) ELSE <<>>
        pi_risk      == IF "Pi Cycle" \in DOMAIN indicators
                        THEN check_pi_cycle_risk(indicators["Pi Cycle"]) ELSE <<>>
        risk_flags   == cbbi_risk \o rainbow_risk \o pi_risk
        \* forced_action is None (here "") until a check appends a flag
        forced_action == IF cbbi_risk # <<>> \/ rainbow_risk # <<>> \/ pi_risk # <<>>
                         THEN "de-risk" ELSE ""
        copy         == CopyOf(consensus)
        flagged      == Put(copy.items, "risk_flags", risk_flags)
        updated      ==
            IF forced_action # "" /\ risk_flags # <<>>
            THEN OverrideAction(flagged, forced_action, file)
            ELSE Put(flagged, "risk_override", Get(consensus, "risk_override", FALSE))
    IN  [arg |-> IF copy.obj = "fresh" THEN consensus ELSE updated,
         ret |-> updated]

\* apply_risk_overrides(consensus, indicators), reading the action map from
\* `file`.  The result is [arg |-> the caller's dict after the call,
\*                         ret |-> the dict returned].
apply_risk_overrides(consensus, indicators, file) ==
    LET cbbi_risk    == IF "Cbbi" \in DOMAIN indicators
                        THEN check_cbbi_risk(indicators["Cbbi"]) ELSE <<>>
        rainbow_risk == IF "Rainbow Bands" \in DOMAIN indicators
                        THEN check_rainbow_risk(indicators["Rainbow Bands"]) ELSE <<>>
        pi_risk      == IF "Pi Cycle" \in DOMAIN indicators
                        THEN check_pi_cycle_risk(indicators["Pi Cycle"]) ELSE <<>>
        risk_flags   == cbbi_risk \o rainbow_risk \o pi_risk
        \* forced_action is None (here "") until a check appends a flag
        forced_action == IF cbbi_risk # <<>> \/ rainbow_risk # <<>> \/ pi_risk # <<>>
                         THEN "de-risk" ELSE ""
        copy         == CopyOf(consensus)
        flagged      == Put(copy.items, "risk_flags", risk_flags)
        updated      ==
            IF forced_action # "" /\ risk_flags # <<>>
            THEN OverrideAction(flagged, forced_action, file)
            ELSE Put(flagged, "risk_override", FALSE)
    IN  [arg |-> IF copy.obj = "fresh" THEN consensus ELSE updated,
         ret |-> updated]

----------------------------------------------------------------------------
(* base_agent.py *)

DefaultRawValue == 50      \* indicator.get('value', 50)

\* the sum of one field over the values of a dict of dicts
SumField(d, field) ==
    LET keys == SetToSeq(DOMAIN d)
    IN  RSum([i \in 1..Len(keys) |-> d[keys[i]][field]])

\* BaseAgent.__init__: self.weights = spec.get('weights', {})
InitialWeights(spec) == Get(spec, "weights", EmptyDict)

\* the signal mapping scoring only an explicit 'neutral' as 50
BaseScore_NeutralOnly(signal) ==
    IF signal = "bullish" THEN 75
    ELSE IF signal = "bearish" THEN 25
    ELSE IF signal = "neutral" THEN 50
    ELSE 0

\* the signal -> score mapping inside weight_signals
BaseScore(signal) ==
    IF signal = "bullish" THEN 75
    ELSE IF signal = "bearish" THEN 25
    ELSE 50

\* equal weights without the division by the number of indicators
EqualWeights_Unit(indicators) ==
    [name \in DOMAIN indicators |-> RInt(1)]

\* the equal weights synthesized when the voter has none
EqualWeights(indicators) ==
    LET equal_weight == Rat(1, Cardinality(DOMAIN indicators))
    IN  [name \in DOMAIN indicators |-> equal_weight]

\* the loop giving up on all entries when one declared indicator is missing
ScoredNames_AllOrNothing(weights, indicators) ==
    IF DOMAIN weights \subseteq DOMAIN indicators THEN DOMAIN weights ELSE {}

\* the names the loop over self.weights emits an entry for
ScoredNames(weights, indicators) ==
    {indicator_name \in DOMAIN weights : indicator_name \in DOMAIN indicators}

\* weight_signals(self): [weights |-> self.weights after the call,
\*                        ret     |-> the mapping returned]
weight_signals(weights, indicators) ==
    LET w == IF weights = EmptyDict /\ indicators # EmptyDict
             THEN EqualWeights(indicators) ELSE weights
        weighted_scores ==
            [indicator_name \in ScoredNames(w, indicators) |->
                LET indicator  == indicators[indicator_name]
                    signal     == Get(indicator, "signal", "neutral")
                    raw_value  == Get(indicator, "value", DefaultRawValue)
                    base_score == BaseScore(signal)
                    weight     == w[indicator_name]
                IN  [raw_value      |-> raw_value,
                     signal         |-> signal,
                     base_score     |-> base_score,
                     weight         |-> weight,
                     weighted_score |-> RMul(RInt(base_score), weight)]]
    IN  [weights |-> w, ret |-> weighted_scores]

\* the clamp with its lower bound left out
ClampScore_UpperOnly(composite) == RMin(RInt(100), composite)

\* composite = max(0, min(100, composite))
ClampScore(composite) == RMax(RInt(0), RMin(RInt(100), composite))

calculate_composite_score(weighted_signals) ==
    IF weighted_signals = EmptyDict THEN RInt(50)
    ELSE LET total_weight == SumField(weighted_signals, "weight")
         IN  IF total_weight = RInt(0) THEN RInt(50)
             ELSE LET weighted_sum == SumField(weighted_signals, "weighted_score")
                      composite    == RDiv(weighted_sum, total_weight)
                  IN  ClampScore(composite)

\* determine_action with the SELL boundary taken as exclusive
determine_action_SellExclusive(score) ==
    IF RGe(score, RInt(75)) THEN "STRONG_BUY"
    ELSE IF RGe(score, RInt(60)) THEN "BUY"
    ELSE IF RLe(score, RInt(25)) THEN "STRONG_SELL"
    ELSE IF RLt(score, RInt(40)) THEN "SELL"
    ELSE "HOLD"

determine_action(score) ==
    IF RGe(score, RInt(75)) THEN "STRONG_BUY"
    ELSE IF RGe(score, RInt(60)) THEN "BUY"
    ELSE IF RLe(score, RInt(25)) THEN "STRONG_SELL"
    ELSE IF RLe(score, RInt(40)) THEN "SELL"
    ELSE "HOLD"

----------------------------------------------------------------------------
(* Inputs of the risk engine *)

\* an indicator file as the refresh stage writes it, or one without a value
IndicatorRecords(values) ==
    {[name |-> "indicator", value |-> v, signal |-> "neutral"] : v \in values}
        \cup {[name |-> "indicator", signal |-> "neutral"]}

\* indicator maps keyed as risk_engine.load_indicators keys them; every key optional
IndicatorSets ==
    LET Opt(S) == {<<>>} \cup {<<x>> : x \in S}
    IN  { LET c == [x \in {} |-> 0]
              withC == IF cb = <<>> THEN c ELSE Put(c, "Cbbi", cb[1])
              withR == IF rb = <<>> THEN withC ELSE Put(withC, "Rainbow Bands", rb[1])
          IN  IF pc = <<>> THEN withR ELSE Put(withR, "Pi Cycle", pc[1])
          : cb \in Opt(IndicatorRecords({CbbiThreshold - 1, CbbiThreshold})),
            rb \in Opt(IndicatorRecords({RainbowThreshold - 1, RainbowThreshold})),
            pc \in Opt(IndicatorRecords({PiCycleThreshold - 1, PiCycleThreshold})) }

\* states of config/action_map.yaml seen by the risk engine
RiskConfigFiles ==
    { <<>>,                                           \* unreadable
      <<DefaultActionMap>>,
      <<[consensus_to_action |->
            << [min |-> 50, action |-> "buy", emoji |-> "green"],
               [max |-> 50, action |-> "de-risk", emoji |-> "orange"] >>]>>,
      <<[consensus_to_action |->                     \* no de-risk entry
            << [max |-> 50, action |-> "hold", emoji |-> "yellow"],
               [min |-> 50, action |-> "buy", emoji |-> "green"] >>]>>,
      <<[consensus_to_action |-> << [max |-> 50, action |-> "de-risk"] >>]>>,
      <<[other_setting |-> 1]>> }                     \* a document without a table

Vote(name, score, action) ==
    [agent_name |-> name, score |-> RInt(score), action |-> action,
     confidence |-> Rat(8, 10), rationale |-> "text"]

\* vote lists from which the aggregator built the consensus of the day
RiskVoteLists ==
    { << Vote("a", 80, "STRONG_BUY") >>,
      << Vote("a", 50, "HOLD") >>,
      << Vote("a", 20, "STRONG_SELL") >>,
      << Vote("a", 80, "STRONG_BUY"), Vote("b", 65, "BUY") >>,
      << Vote("a", 65, "BUY"), Vote("b", 35, "SELL"), Vote("c", 65, "BUY") >> }

----------------------------------------------------------------------------
(* Values of the variables a specification does not use *)

RiskIdle ==
    /\ rConsensus = <<>> /\ rInput = <<>> /\ rBefore = <<>>
    /\ rIndicators = <<>> /\ rConfig = <<>> /\ rPasses = 0

MapIdle == mFile = <<>> /\ mTable = <<>> /\ mValue = RInt(0) /\ mResult = <<>>

AggIdle ==
    /\ gOutputs = <<>> /\ gConfigFile = <<>> /\ gConsensusFile = <<>>
    /\ gVotes = <<>> /\ gResult = [kind |-> "none"] /\ gExit = -1

AgentIdle ==
    /\ aSpec = <<>> /\ aIndicators = <<>> /\ aWeights = <<>> /\ aWeighted = <<>>
    /\ aScore = <<>> /\ aArg = <<>> /\ aAction = "" /\ aCalls = 0 /\ aPc = "idle"

----------------------------------------------------------------------------
(* The risk stage: the aggregator has written the consensus of the day, then  *)
(* risk_engine runs over it, possibly more than once and with refreshed      *)
(* indicators.                                                                *)

RefreshIdle ==
    /\ iDay = 0 /\ iCache = EmptyDict /\ iTask = "none" /\ iMaxRetries = 0 /\ iRetry = 0
    /\ iReply = <<>> /\ iFetch = [kind |-> "none"] /\ iArgs = <<>> /\ iSignal = "" /\ iResult = <<>>
    /\ iCalls = 0

LoadIdle == dFiles = EmptyDict /\ dVoter = <<>> /\ dRisk = <<>>

RunIdle == oPc = EmptyDict /\ oOutput = EmptyDict /\ oFiles = EmptyDict /\ oLoaded = <<>>

PostIdle == pFile = <<>> /\ pSent = <<>> /\ pResult = <<>>

LateIdle  == LoadIdle /\ RunIdle /\ PostIdle
EarlyIdle == RiskIdle /\ MapIdle /\ AgentIdle /\ AggIdle /\ RefreshIdle

RiskAlone    == MapIdle /\ AgentIdle /\ AggIdle /\ RefreshIdle /\ LateIdle
MapAlone     == RiskIdle /\ AgentIdle /\ AggIdle /\ RefreshIdle /\ LateIdle
AgentAlone   == RiskIdle /\ MapIdle /\ AggIdle /\ RefreshIdle /\ LateIdle
AggAlone     == RiskIdle /\ MapIdle /\ AgentIdle /\ RefreshIdle /\ LateIdle
RefreshAlone == RiskIdle /\ MapIdle /\ AgentIdle /\ AggIdle /\ LateIdle
LoadAlone    == EarlyIdle /\ RunIdle /\ PostIdle
RunAlone     == EarlyIdle /\ LoadIdle /\ PostIdle
PostAlone    == EarlyIdle /\ LoadIdle /\ RunIdle

RiskInit ==
    /\ rConsensus \in {aggregate_votes(v, load_config(<<>>)) : v \in RiskVoteLists}
    /\ rConfig \in RiskConfigFiles
    /\ rInput = <<>> /\ rBefore = <<>> /\ rIndicators = <<>>
    /\ rPasses = 0
    /\ RiskAlone

\* one call apply_risk_overrides(consensus, indicators) followed by save_consensus
RiskPass(indicators) ==
    /\ rPasses < MaxPasses
    /\ LET r == apply_risk_overrides(rConsensus, indicators, rConfig)
       IN  /\ rConsensus' = r.ret
           /\ rInput' = r.arg
    /\ rBefore' = rConsensus
    /\ rIndicators' = indicators
    /\ rPasses' = rPasses + 1
    /\ UNCHANGED <<rConfig, restOfRisk>>

RiskNext == \E indicators \in IndicatorSets : RiskPass(indicators)

SpecRisk == RiskInit /\ [][RiskNext]_vars

\* the independent statement of which checks fire for an indicator map
Fires(indicators, key, threshold) ==
    /\ key \in DOMAIN indicators
    /\ "value" \in DOMAIN indicators[key]
    /\ indicators[key]["value"] >= threshold

ExpectedFlags(indicators) ==
    {f \in {"cbbi_high", "rainbow_top", "pi_cycle_top"} :
        \/ f = "cbbi_high"    /\ Fires(indicators, "Cbbi", 80)
        \/ f = "rainbow_top"  /\ Fires(indicators, "Rainbow Bands", 700)
        \/ f = "pi_cycle_top" /\ Fires(indicators, "Pi Cycle", 95)}

\* C1 (as claimed): a second pass over the output of a pass, with the same
\* indicators, returns a consensus equal to that output in every field.
C1_Idempotent ==
    rPasses >= 1 =>
        apply_risk_overrides(rConsensus, rIndicators, rConfig).ret = rConsensus

\* C3: whenever at least one check fires, the returned consensus has action
\* de-risk, original_action = the input's action and risk_override = TRUE,
\* whatever the table holds and also when the table cannot be loaded.
C3_OverrideForced ==
    (rPasses >= 1 /\ ExpectedFlags(rIndicators) # {}) =>
        /\ rConsensus["action"] = "de-risk"
        /\ "original_action" \in DOMAIN rConsensus
        /\ rConsensus["original_action"] = rBefore["action"]
        /\ rConsensus["risk_override"] = TRUE

C3_Witness ==
    /\ rPasses >= 1
    /\ ExpectedFlags(rIndicators) = {"cbbi_high"}
    /\ rConfig = <<>>
    /\ rBefore["action"] = "buy"
    /\ rConsensus["action"] = "de-risk"

\* C4: risk_flags holds exactly one flag per indicator that is present with a
\* value at or above its own threshold (CBBI 0.8, Rainbow Bands 7, Pi Cycle
\* 0.95), in check order, and nothing else; an absent indicator or one without
\* a value contributes no flag.
C4_FlagsExact ==
    rPasses >= 1 =>
        LET flags == rConsensus["risk_flags"]
            names == {flags[i].flag : i \in 1..Len(flags)}
        IN  /\ names = ExpectedFlags(rIndicators)
            /\ Len(flags) = Cardinality(ExpectedFlags(rIndicators))
            /\ \A i \in 1..Len(flags) :
                  \/ /\ flags[i].flag = "cbbi_high"
                     /\ flags[i].value = rIndicators["Cbbi"]["value"]
                     /\ flags[i].threshold = 80
                  \/ /\ flags[i].flag = "rainbow_top"
                     /\ flags[i].value = rIndicators["Rainbow Bands"]["value"]
                     /\ flags[i].threshold = 700
                  \/ /\ flags[i].flag = "pi_cycle_top"
                     /\ flags[i].value = rIndicators["Pi Cycle"]["value"]
                     /\ flags[i].threshold = 95

C4_Witness ==
    /\ rPasses >= 1
    /\ "Cbbi" \in DOMAIN rIndicators /\ "value" \notin DOMAIN rIndicators["Cbbi"]
    /\ "Rainbow Bands" \notin DOMAIN rIndicators
    /\ Fires(rIndicators, "Pi Cycle", 95) /\ rIndicators["Pi Cycle"]["value"] = 95
    /\ Len(rConsensus["risk_flags"]) = 1

RiskFields == {"action", "emoji", "original_action", "risk_flags", "risk_override"}

\* C5: a pass changes only the risk fields.  Without a firing check the output
\* is the input with risk_flags = [] and risk_override = false; with one, only
\* action, emoji, original_action, risk_flags and risk_override may differ;
\* score, agent_votes and distribution are always those of the input, and the
\* dict passed in is left as it was.
C5_Frame ==
    rPasses >= 1 =>
        /\ rInput = rBefore
        /\ rConsensus["score"] = rBefore["score"]
        /\ rConsensus["agent_votes"] = rBefore["agent_votes"]
        /\ rConsensus["distribution"] = rBefore["distribution"]
        /\ ExpectedFlags(rIndicators) = {} =>
              rConsensus = Put(Put(rBefore, "risk_flags", <<>>), "risk_override", FALSE)
        /\ ExpectedFlags(rIndicators) # {} =>
              /\ DOMAIN rConsensus = DOMAIN rBefore \cup RiskFields
              /\ \A k \in DOMAIN rBefore \ RiskFields : rConsensus[k] = rBefore[k]

C5_Witness ==
    /\ rPasses = 2
    /\ ExpectedFlags(rIndicators) = {}
    /\ "original_action" \in DOMAIN rBefore
    /\ rBefore["action"] = "de-risk"
    /\ rConsensus["action"] = "de-risk"
    /\ rConsensus["risk_override"] = FALSE

----------------------------------------------------------------------------
(* The threshold mapping: map_consensus_to_action over generated tables *)

\* bands a table is built from; the action names the band
Bands ==
    { [max |-> 40, action |-> "de-risk", emoji |-> "red"],
      [min |-> 40, max |-> 60, action |-> "hold", emoji |-> "yellow"],
      [min |-> 60, action |-> "buy", emoji |-> "green"],
      [min |-> 20, max |-> 40, action |-> "sell"],
      [action |-> "watch", emoji |-> "eyes"] }

RECURSIVE TablesOfLen(_)
TablesOfLen(n) ==
    IF n = 0 THEN {<<>>}
    ELSE {Append(t, b) : t \in TablesOfLen(n - 1), b \in Bands}

ActionMaps ==
    {[consensus_to_action |-> t] : t \in UNION {TablesOfLen(n) : n \in 0..MaxBands}}
        \cup {DefaultActionMap}

\* states of config/action_map.yaml holding a well-formed table, or unreadable
MapConfigFiles == {<<>>} \cup {<<m>> : m \in ActionMaps}

ConsensusValues == {RInt(10 * k) : k \in 0..MaxValue} \cup {Rat(79, 2), Rat(119, 2)}

MapInit ==
    /\ mFile \in MapConfigFiles
    /\ mTable = <<>>
    /\ mValue \in ConsensusValues
    /\ mResult = <<>>
    /\ MapAlone

\* config = load_config(ACTION_MAP_PATH), then
\* map_consensus_to_action(consensus_pct, config)
MapCall ==
    /\ mResult = <<>>
    /\ mTable' = load_config(mFile)
    /\ mResult' = <<map_consensus_to_action(mValue, mTable')>>
    /\ UNCHANGED <<mFile, mValue, restOfMap>>

MapNext == MapCall

SpecMap == MapInit /\ [][MapNext]_vars

\* the half-open interval of a band that carries min, max or both
InBand(v, band) ==
    /\ "min" \in DOMAIN band \/ "max" \in DOMAIN band
    /\ "min" \in DOMAIN band => RGe(v, RInt(band["min"]))
    /\ "max" \in DOMAIN band => RLt(v, RInt(band["max"]))

\* C2 (as claimed): the result is the action and emoji of the first band, in
\* table order, whose half-open interval [min, max) contains the value; a band
\* with both min and max is never selected for a value below its min.
C2_FirstContainingBand ==
    mResult # <<>> =>
        LET table == mTable["consensus_to_action"]
        IN  \A i \in 1..Len(table) :
               (InBand(mValue, table[i]) /\ \A j \in 1..(i - 1) : ~InBand(mValue, table[j]))
                   => mResult[1] = BandResult(table[i])

----------------------------------------------------------------------------
(* One voter: weight_signals, calculate_composite_score, determine_action *)

IndicatorNames == {"CBBI", "Rainbow Bands", "Pi Cycle"}

\* all dicts with keys among `names` and values in `values`
Dicts(names, values) == UNION {[ks -> values] : ks \in SUBSET names}

AgentIndicatorRecords ==
    {[name |-> "indicator", value |-> 65, signal |-> s] :
        s \in {"bullish", "bearish", "neutral", "", "unknown"}}
        \cup {[name |-> "indicator"]}

DeclaredWeights == {RInt(w) : w \in (-1)..MaxWeight}

AgentSpecs ==
    {[name |-> "Test Agent", weights |-> w] : w \in Dicts(IndicatorNames, DeclaredWeights)}
        \cup {[name |-> "Test Agent"]}

\* mappings handed to calculate_composite_score directly
DirectSignals ==
    Dicts({"A", "B"},
          [weight : {RInt(w) : w \in (-1)..MaxWeight},
           weighted_score : {RInt(-50), RInt(0), RInt(40), RInt(60), RInt(250)}])

\* scores handed to determine_action directly: -2, -1.5 .. 102
DirectScores == {Rat(k, 2) : k \in (-4)..204}

AgentInit ==
    /\ aSpec \in AgentSpecs
    /\ aIndicators \in Dicts(IndicatorNames, AgentIndicatorRecords)
    /\ aWeights = InitialWeights(aSpec)
    /\ aWeighted = <<>> /\ aScore = <<>> /\ aArg = <<>> /\ aAction = ""
    /\ aCalls = 0
    /\ aPc = "new"
    /\ AgentAlone

\* agent.weight_signals()
WeightSignals ==
    /\ aPc \in {"new", "weighted"}
    /\ aCalls < MaxCalls
    /\ LET r == weight_signals(aWeights, aIndicators)
       IN  /\ aWeights' = r.weights
           /\ aWeighted' = r.ret
    /\ aCalls' = aCalls + 1
    /\ aPc' = "weighted"
    /\ UNCHANGED <<aSpec, aIndicators, aScore, aArg, aAction, restOfAgent>>

\* score = agent.calculate_composite_score(weighted_signals)
CompositeScore ==
    /\ aPc = "weighted"
    /\ aScore' = calculate_composite_score(aWeighted)
    /\ aPc' = "scored"
    /\ UNCHANGED <<aSpec, aIndicators, aWeights, aWeighted, aArg, aAction, aCalls,
                   restOfAgent>>

\* action = agent.determine_action(score)
DetermineAction ==
    /\ aPc = "scored"
    /\ aArg' = aScore
    /\ aAction' = determine_action(aScore)
    /\ aPc' = "done"
    /\ UNCHANGED <<aSpec, aIndicators, aWeights, aWeighted, aScore, aCalls,
                   restOfAgent>>

\* calculate_composite_score called on a mapping built by the caller
DirectCompositeScore(weighted_signals) ==
    /\ aPc = "new"
    /\ aSpec = [name |-> "Test Agent"] /\ aIndicators = EmptyDict
    /\ aWeighted' = weighted_signals
    /\ aScore' = calculate_composite_score(weighted_signals)
    /\ aPc' = "scored"
    /\ UNCHANGED <<aSpec, aIndicators, aWeights, aArg, aAction, aCalls, restOfAgent>>

\* determine_action called on a score chosen by the caller
DirectDetermineAction(score) ==
    /\ aPc = "new"
    /\ aSpec = [name |-> "Test Agent"] /\ aIndicators = EmptyDict
    /\ aArg' = score
    /\ aAction' = determine_action(score)
    /\ aPc' = "done"
    /\ UNCHANGED <<aSpec, aIndicators, aWeights, aWeighted, aScore, aCalls,
                   restOfAgent>>

AgentNext ==
    \/ WeightSignals
    \/ CompositeScore
    \/ DetermineAction
    \/ \E ws \in DirectSignals : DirectCompositeScore(ws)
    \/ \E s \in DirectScores : DirectDetermineAction(s)

SpecAgent == AgentInit /\ [][AgentNext]_vars

\* the composite score has been computed from aWeighted
Scored == aPc \in {"scored", "done"} /\ aScore # <<>>

\* the weights the voter declared in its spec
Declared == Get(aSpec, "weights", EmptyDict)

\* the base score the voter is to give an indicator record
BaseScoreOfSignal(indicator) ==
    IF "signal" \in DOMAIN indicator /\ indicator["signal"] = "bullish" THEN 75
    ELSE IF "signal" \in DOMAIN indicator /\ indicator["signal"] = "bearish" THEN 25
    ELSE 50

\* the sum of the second components of a finite set of pairs
RECURSIVE SumInts(_)
SumInts(S) == IF S = {} THEN 0
              ELSE LET p == CHOOSE q \in S : TRUE IN p[2] + SumInts(S \ {p})

\* C6: calculate_composite_score returns clamp(sum of weighted_score / sum of
\* weight, 0, 100), 50 for an empty mapping or a zero total weight, hence
\* always a value in [0, 100], also with negative weights or weighted scores.
C6_CompositeClamped ==
    Scored =>
        /\ RLe(RInt(0), aScore) /\ RLe(aScore, RInt(100))
        /\ IF aWeighted = EmptyDict \/ SumField(aWeighted, "weight") = RInt(0)
           THEN aScore = RInt(50)
           ELSE LET sum   == SumField(aWeighted, "weighted_score")
                    total == SumField(aWeighted, "weight")
                    \* sum / total without the division: sign-aware cross products
                    s     == IF total[1] < 0 THEN -1 ELSE 1
                    num   == s * sum[1] * total[2]
                    den   == s * total[1] * sum[2]
                IN  IF num < 0 THEN aScore = RInt(0)
                    ELSE IF num > 100 * den THEN aScore = RInt(100)
                    ELSE aScore[1] * den = num * aScore[2]

C6_Witness ==
    /\ Scored
    /\ aCalls = 0
    /\ aWeighted # EmptyDict
    /\ RLt(SumField(aWeighted, "weighted_score"), RInt(0))
    /\ RLt(RInt(0), SumField(aWeighted, "weight"))
    /\ aScore = RInt(0)

\* C7: determine_action maps every score to exactly one action:
\* >= 75 STRONG_BUY, [60, 75) BUY, <= 25 STRONG_SELL, (25, 40] SELL,
\* (40, 60) HOLD.
C7_ActionBands ==
    aPc = "done" =>
        LET n == aArg[1]
            d == aArg[2]
        IN  /\ (n >= 75 * d) <=> (aAction = "STRONG_BUY")
            /\ (60 * d <= n /\ n < 75 * d) <=> (aAction = "BUY")
            /\ (n <= 25 * d) <=> (aAction = "STRONG_SELL")
            /\ (25 * d < n /\ n <= 40 * d) <=> (aAction = "SELL")
            /\ (40 * d < n /\ n < 60 * d) <=> (aAction = "HOLD")

C7_Witness == aPc = "done" /\ aArg = RInt(40) /\ aAction = "SELL"

\* C8: for every declared weight whose indicator is available, weight_signals
\* emits an entry with base_score 75 for 'bullish', 25 for 'bearish' and 50
\* for any other or missing signal, weight = the declared weight and
\* weighted_score = base_score * weight.
C8_BaseScores ==
    (aCalls >= 1 /\ Declared # EmptyDict) =>
        \A name \in DOMAIN Declared \cap DOMAIN aIndicators :
            /\ name \in DOMAIN aWeighted
            /\ LET e      == aWeighted[name]
                   signal == IF "signal" \in DOMAIN aIndicators[name]
                             THEN aIndicators[name]["signal"] ELSE "missing"
               IN  /\ signal = "bullish" => e.base_score = 75
                   /\ signal = "bearish" => e.base_score = 25
                   /\ signal \notin {"bullish", "bearish"} => e.base_score = 50
                   /\ e.weight = Declared[name]
                   /\ e.weighted_score[1] * e.weight[2]
                          = e.base_score * e.weight[1] * e.weighted_score[2]

C8_Witness ==
    /\ aCalls >= 1
    /\ DOMAIN Declared = IndicatorNames
    /\ DOMAIN aWeighted = IndicatorNames
    /\ "signal" \notin DOMAIN aIndicators["CBBI"]
    /\ aWeighted["CBBI"].base_score = 50
    /\ Get(aIndicators["Pi Cycle"], "signal", "missing") = "unknown"
    /\ aWeighted["Pi Cycle"].base_score = 50
    /\ aWeighted["Rainbow Bands"].base_score = 75
    /\ aWeighted["Rainbow Bands"].weighted_score = RInt(150)

\* C9: when the voter declares weights, the keys of the returned mapping are
\* exactly the declared names that are available indicators.
C9_KeySet ==
    (aCalls >= 1 /\ Declared # EmptyDict) =>
        DOMAIN aWeighted = DOMAIN Declared \cap DOMAIN aIndicators

C9_Witness ==
    /\ aCalls >= 1
    /\ DOMAIN Declared = {"CBBI", "Pi Cycle"}
    /\ DOMAIN aIndicators = {"CBBI", "Rainbow Bands"}
    /\ DOMAIN aWeighted = {"CBBI"}

----------------------------------------------------------------------------
(* Specification of the aggregation stage: main over the output files of   *)
(* the date, and aggregate_votes called directly on a vote list            *)

\* what an agent's output file for the date can hold: votes as the rule based
\* agents write them, votes with fields missing, and votes with null fields as
\* LlmAgent.parse_llm_response emits them; <<>> is a file that does not parse
VoteFiles ==
    { <<>>,
      <<[agent_name |-> "a", score |-> RInt(80), action |-> "STRONG_BUY",
         confidence |-> Rat(4, 5), rationale |-> "r1"]>>,
      <<[agent_name |-> "b", score |-> RInt(65), action |-> "BUY",
         confidence |-> Rat(3, 10), rationale |-> "r2"]>>,
      <<[agent_name |-> "c", score |-> RInt(35), action |-> "SELL",
         confidence |-> Rat(1, 2), rationale |-> "r3"]>>,
      <<[agent_name |-> "d", score |-> RInt(50), action |-> "HOLD"]>>,
      <<[agent_name |-> "e"]>>,
      <<[agent_name |-> "f", score |-> PyNone, action |-> "BUY",
         confidence |-> Rat(1, 2), rationale |-> "r6"]>>,
      <<[agent_name |-> "g", score |-> RInt(20), action |-> "null",
         confidence |-> PyNone, rationale |-> "r7"]>> }

OutputDirs == UNION {[1..n -> VoteFiles] : n \in 0..MaxVotes}

\* states of config/action_map.yaml
AggConfigFiles ==
    { <<>>,                                           \* unreadable
      <<DefaultActionMap>>,
      <<NoneDocument>>,                               \* empty document
      <<[risk_overrides |-> EmptyDict]>>,             \* no consensus_to_action list
      <<[consensus_to_action |->
            << [min |-> 50, action |-> "buy", emoji |-> "green"] >>]>> }

AggInit ==
    /\ gOutputs \in OutputDirs
    /\ gConfigFile \in AggConfigFiles
    /\ gConsensusFile = <<>>
    /\ gVotes = <<>>
    /\ gResult = [kind |-> "none"]
    /\ gExit = -1
    /\ AggAlone

\* one run of aggregate_votes.py for the date
AggMain ==
    /\ gExit = -1 /\ gResult.kind = "none"
    /\ LET run == aggregate_votes_main(gOutputs, gConfigFile, gConsensusFile)
       IN  /\ gExit' = run.exit
           /\ gConsensusFile' = run.consensus_file
           /\ gVotes' = run.votes
           /\ gResult' = run.result
    /\ UNCHANGED <<gOutputs, gConfigFile, restOfAgg>>

\* aggregate_votes(agent_outputs, config) called on the loaded list, empty or not
AggCall ==
    /\ gExit = -1 /\ gResult.kind = "none"
    /\ gVotes' = load_agent_outputs(gOutputs)
    /\ gResult' = aggregate_votes_outcome(gVotes', load_config(gConfigFile))
    /\ UNCHANGED <<gOutputs, gConfigFile, gConsensusFile, gExit,
                   restOfAgg>>

AggNext == AggMain \/ AggCall

SpecAgg == AggInit /\ [][AggNext]_vars

\* aggregate_votes has returned a consensus for a non-empty vote list
Aggregated == gResult.kind = "ok" /\ gVotes # <<>>

\* the number of votes for an action, missing action counted as HOLD
VotesFor(a) ==
    Cardinality({i \in 1..Len(gVotes) : Get(gVotes[i], "action", "HOLD") = a})

\* C11: the consensus score is the plain mean of the votes' scores, a vote
\* without a score counting as 50; replacing any vote's confidence or
\* rationale changes neither the consensus score nor the consensus action.
C11_ScoreIsMean ==
    Aggregated =>
        LET N          == Len(gVotes)
            config     == load_config(gConfigFile)
            ScoreOf(i) == IF "score" \in DOMAIN gVotes[i] THEN gVotes[i]["score"][1] ELSE 50
            total      == SumInts({<<i, ScoreOf(i)>> : i \in 1..N})
        IN  /\ gResult.value.score[1] * N = gResult.value.score[2] * total
            /\ \A i \in 1..N : \A c \in {RInt(0), RInt(1), PyNone} : \A t \in {"", "other"} :
                   LET changed == [gVotes EXCEPT
                                      ![i] = Put(Put(@, "confidence", c), "rationale", t)]
                       again   == aggregate_votes(changed, config)
                   IN  /\ again.score = gResult.value.score
                       /\ again.action = gResult.value.action

C11_Witness ==
    /\ Aggregated
    /\ Len(gVotes) = 2
    /\ Get(gVotes[1], "confidence", PyNone) = Rat(4, 5)
    /\ "score" \notin DOMAIN gVotes[2]
    /\ gResult.value.score = RInt(65)
    /\ gResult.value.action = "buy"

\* aggregate_votes was called directly on an empty vote list
EmptyCall == gExit = -1 /\ gResult.kind # "none" /\ gVotes = <<>>

\* C12 as stated: with zero votes the aggregation signals an error instead of
\* falling back to the neutral default.
C12_EmptyFails == EmptyCall => gResult.kind = "raised"

\* C12: with zero votes calculate_consensus_pct returns the neutral default 50
\* and aggregate_votes builds a consensus on it (score 50, the action the table
\* gives for 50, no agent votes, empty distribution, agreement 1); the call
\* raises only when the loaded configuration is None.
C12_EmptyNeutral ==
    EmptyCall =>
        LET config == load_config(gConfigFile)
        IN  IF IsNone(config)
            THEN gResult.kind = "raised"
            ELSE /\ gResult.kind = "ok"
                 /\ gResult.value.score = RInt(50)
                 /\ gResult.value.action = map_consensus_to_action(RInt(50), config).action
                 /\ gResult.value.agent_votes = <<>>
                 /\ gResult.value.distribution.distribution = EmptyDict
                 /\ gResult.value.distribution.agreement_level = RInt(1)

C12_Witness ==
    /\ EmptyCall
    /\ Len(gOutputs) = 2
    /\ gConfigFile = <<DefaultActionMap>>
    /\ gResult.kind = "ok"
    /\ gResult.value.score = RInt(50)
    /\ gResult.value.action = "hold"

\* main has run and found no parsable agent output for the date
EmptyRun == gExit # -1 /\ \A i \in 1..Len(gOutputs) : gOutputs[i] = <<>>

\* C13: main run for a date without any parsable agent output returns exit
\* status 1, does not call aggregate_votes and writes no consensus file; a
\* consensus file that exists was never built from zero votes.
C13_EmptyRunFails ==
    /\ EmptyRun => /\ gExit = 1
                   /\ gConsensusFile = <<>>
                   /\ gResult.kind = "none"
    /\ gConsensusFile # <<>> => gConsensusFile[1].agent_votes # <<>>

C13_Witness ==
    /\ EmptyRun
    /\ Len(gOutputs) = 2
    /\ gConfigFile = <<DefaultActionMap>>
    /\ gExit = 1
    /\ gConsensusFile = <<>>

\* C14: agreement_level is (count of the most common action) / N for N >= 2
\* votes and 1 for N <= 1; for N >= 1 it lies in [1/N, 1].
C14_AgreementLevel ==
    gResult.kind = "ok" =>
        LET N       == Len(gVotes)
            level   == gResult.value.distribution.agreement_level
            Actions == {Get(gVotes[i], "action", "HOLD") : i \in 1..N}
        IN  /\ N <= 1 => level = RInt(1)
            /\ N >= 2 => \E a \in Actions :
                             /\ \A b \in Actions : VotesFor(b) <= VotesFor(a)
                             /\ level[1] * N = level[2] * VotesFor(a)
            /\ N >= 1 => level[2] <= level[1] * N /\ level[1] <= level[2]

C14_Witness ==
    /\ Aggregated
    /\ Len(gVotes) = 3
    /\ VotesFor("HOLD") = 2 /\ VotesFor("BUY") = 1
    /\ gResult.value.distribution.agreement_level = Rat(2, 3)

\* the action strings occurring among the votes, missing action as HOLD
VotedActions == {Get(gVotes[i], "action", "HOLD") : i \in 1..Len(gVotes)}

\* C15 as stated: for every non-empty vote list, one vote included,
\* distribution maps each occurring action to its number of votes and
\* majority_action is present and names an action with the maximum count.
C15_Distribution ==
    Aggregated =>
        LET d == gResult.value.distribution
        IN  /\ \A a \in VotedActions :
                   /\ a \in DOMAIN d.distribution
                   /\ d.distribution[a] = VotesFor(a)
            /\ \A a \in DOMAIN d.distribution : a \in VotedActions
            /\ "majority_action" \in DOMAIN d
            /\ \A b \in VotedActions : VotesFor(b) <= VotesFor(d.majority_action)

\* the index of the first vote carrying action a
FirstVoteFor(a) ==
    CHOOSE i \in 1..Len(gVotes) :
        /\ Get(gVotes[i], "action", "HOLD") = a
        /\ \A k \in 1..(i - 1) : Get(gVotes[k], "action", "HOLD") # a

\* the actions with the highest vote count
TopActions == {a \in VotedActions : \A b \in VotedActions : VotesFor(b) <= VotesFor(a)}

\* C16: among the actions sharing the highest vote count, majority_action is
\* the one whose first occurrence is earliest in the vote list.
C16_TieBreak ==
    (Aggregated /\ Len(gVotes) >= 2) =>
        LET m == gResult.value.distribution.majority_action
        IN  /\ m \in TopActions
            /\ \A a \in TopActions : FirstVoteFor(m) <= FirstVoteFor(a)

C16_Witness ==
    /\ Aggregated
    /\ Len(gVotes) = 3
    /\ Get(gVotes[1], "action", "HOLD") = "SELL"
    /\ Get(gVotes[2], "action", "HOLD") = "HOLD"
    /\ Get(gVotes[3], "action", "HOLD") = "BUY"
    /\ Cardinality(TopActions) = 3
    /\ gResult.value.distribution.majority_action = "SELL"

----------------------------------------------------------------------------
(* Threshold mapping: unmatched values and the built-in table *)

\* C17 as stated: when no band of the table contains the value (a gap, an
\* empty table, bands with neither min nor max) the result is action hold
\* with the default emoji.
C17_UnmatchedHolds ==
    mResult # <<>> =>
        LET table == mTable["consensus_to_action"]
        IN  (\A i \in 1..Len(table) : ~InBand(mValue, table[i]))
                => mResult[1] = [action |-> "hold", emoji |-> DefaultEmoji]

\* C18: when loading the table fails, the built-in default table is used:
\* v < 40 maps to de-risk, 40 <= v < 60 to hold, v >= 60 to buy.
C18_DefaultTable ==
    (mResult # <<>> /\ mFile = <<>>) =>
        /\ mTable = DefaultActionMap
        /\ mResult[1].action =
               IF mValue[1] < 40 * mValue[2] THEN "de-risk"
               ELSE IF mValue[1] < 60 * mValue[2] THEN "hold"
               ELSE "buy"

C18_Witness ==
    /\ mFile = <<>>
    /\ mResult # <<>>
    /\ mValue = Rat(119, 2)
    /\ mResult[1].action = "hold"

----------------------------------------------------------------------------
(* Aggregation stage: malformed configuration and bad votes *)

\* the table was read without error but is an empty document or a document
\* without a consensus_to_action list
MalformedConfig ==
    /\ gConfigFile # <<>>
    /\ "consensus_to_action" \notin DOMAIN gConfigFile[1]

\* C19 as stated: main run with a malformed table and votes that all carry
\* usable scores does not fail, and the consensus action is the one the
\* built-in default table gives for the consensus score.
C19_MalformedUsesDefault ==
    (gExit # -1 /\ MalformedConfig /\ gVotes # <<>>
        /\ \A i \in 1..Len(gVotes) : Get(gVotes[i], "score", RInt(50)) # PyNone)
    => /\ gExit = 0
       /\ gConsensusFile # <<>>
       /\ gConsensusFile[1].action =
              map_consensus_to_action(gConsensusFile[1].score, DefaultActionMap).action

\* C20 as stated: aggregate_votes called with a configuration that is a
\* mapping returns a consensus for every list of vote records, votes with
\* missing or null score, action or confidence included.
C20_NeverRaises ==
    (gResult.kind # "none" /\ ~IsNone(load_config(gConfigFile)))
        => gResult.kind = "ok"

----------------------------------------------------------------------------
(* One voter: side effects of weight_signals *)

\* C21 as stated: a call of weight_signals leaves the voter's spec, its stored
\* weights and its indicator set as they were, also when the voter declared
\* no weights and equal weights are synthesized.
C21_NoSideEffect ==
    [][aCalls' # aCalls => /\ aSpec' = aSpec
                           /\ aIndicators' = aIndicators
                           /\ aWeights' = aWeights]_vars

----------------------------------------------------------------------------
(* refresh_indicators.py *)

\* the indicator names get_signal_from_value is tried with
SignalNames ==
    {"cbbi", "CBBI", "Cbbi", "rainbow_bands", "Rainbow_Bands", "Rainbow Bands",
     "pi_cycle", "Pi_Cycle", "Pi Cycle", "fear_greed"}

\* str.lower() on those names
Lower(name) ==
    CASE name \in {"CBBI", "Cbbi"} -> "cbbi"
      [] name = "Rainbow_Bands"     -> "rainbow_bands"
      [] name = "Rainbow Bands"     -> "rainbow bands"
      [] name = "Pi_Cycle"          -> "pi_cycle"
      [] name = "Pi Cycle"          -> "pi cycle"
      [] OTHER                      -> name

\* the thresholds compared strictly
get_signal_from_value_Strict(indicator_name, value) ==
    LET Band(bearish_from, bullish_to) ==
            IF RLt(bearish_from, value) THEN "bearish"
            ELSE IF RLt(value, bullish_to) THEN "bullish"
            ELSE "neutral"
    IN  IF Lower(indicator_name) = "cbbi" THEN Band(Rat(8, 10), Rat(3, 10))
        ELSE IF Lower(indicator_name) = "rainbow_bands" THEN Band(RInt(7), RInt(2))
        ELSE IF Lower(indicator_name) = "pi_cycle" THEN Band(Rat(95, 100), Rat(5, 10))
        ELSE Band(RInt(70), RInt(30))

get_signal_from_value(indicator_name, value) ==
    LET Band(bearish_from, bullish_to) ==
            IF RGe(value, bearish_from) THEN "bearish"
            ELSE IF RLe(value, bullish_to) THEN "bullish"
            ELSE "neutral"
    IN  IF Lower(indicator_name) = "cbbi" THEN Band(Rat(8, 10), Rat(3, 10))
        ELSE IF Lower(indicator_name) = "rainbow_bands" THEN Band(RInt(7), RInt(2))
        ELSE IF Lower(indicator_name) = "pi_cycle" THEN Band(Rat(95, 100), Rat(5, 10))
        ELSE Band(RInt(70), RInt(30))

DefaultMaxRetries == 3     \* max_retries: int = 3

\* int(header) succeeds on the Retry-After values that are decimal integers;
\* an absent header falls back to int(base_delay * 2 ** retry)
RetryAfterParses(retry_after) == retry_after = <<>> \/ retry_after[1] \in {"0", "120"}

\* One pass of the loop body for the answer `reply` to session.get, `retry`
\* being the loop variable: the outcome of the call so far.
\*   reply.kind = "ok":     status 200 with content_type and body (a JSON body
\*                          is <<doc>>, or <<>> when it does not decode)
\*   reply.kind = "status": a status other than 200, with the Retry-After header
\*   reply.kind = "error":  aiohttp.ClientError or asyncio.TimeoutError
fetch_attempt(reply, retry, max_retries) ==
    IF reply.kind = "ok"
    THEN IF reply.content_type = "application/json"
         THEN IF reply.body = <<>>
              THEN [kind |-> "raised", exc |-> "JSONDecodeError"]
              ELSE [kind |-> "returned", ok |-> TRUE, data |-> reply.body[1]]
         ELSE [kind |-> "returned", ok |-> TRUE, data |-> reply.body]
    ELSE IF reply.kind = "status" /\ reply.status = 429
            /\ ~RetryAfterParses(reply.retry_after)
    THEN [kind |-> "raised", exc |-> "ValueError"]
    ELSE IF retry + 1 < max_retries
    THEN [kind |-> "running"]
    ELSE [kind |-> "returned", ok |-> FALSE, data |-> PyNone]

\* fetch_with_retry before its first GET: range(0) returns at once
fetch_start(max_retries) ==
    IF max_retries > 0 THEN [kind |-> "running"]
    ELSE [kind |-> "returned", ok |-> FALSE, data |-> PyNone]

\* datetime.strptime(date_str, '%Y-%m-%d') succeeds
DateParses(date_str) == date_str = "2025-05-20"

FallbackRainbow ==
    [name |-> "Rainbow Bands", timestamp |-> "now", value |-> RInt(4), signal |-> "neutral"]

\* band_position after the loop over the columns 2 .. 9 of latest_row (Python
\* index i is position i + 1 here); every cell is <<n>> or <<>> (not a number)
BandPosition(price, latest_row) ==
    LET above == {i \in 2..9 : i < Len(latest_row) /\ price > latest_row[i + 1][1]}
    IN  IF above = {} THEN 1
        ELSE (CHOOSE i \in above : \A j \in above : j <= i) - 1

\* the try block of fetch_rainbow_bands on the CSV rows: <<result>>, or <<>>
\* when it falls through (one row at most) or raises IndexError / ValueError
parse_rainbow(rows) ==
    IF Len(rows) <= 1 THEN <<>>
    ELSE LET latest_row == rows[Len(rows)]
         IN  IF Len(latest_row) < 2 THEN <<>>
             ELSE IF latest_row[2] = <<>> THEN <<>>
             ELSE IF \E i \in 2..9 : i < Len(latest_row) /\ latest_row[i + 1] = <<>> THEN <<>>
             ELSE IF ~DateParses(latest_row[1]) THEN <<>>
             ELSE LET band_position == BandPosition(latest_row[2][1], latest_row)
                  IN  <<[name      |-> "Rainbow Bands",
                         timestamp |-> latest_row[1],
                         value     |-> RInt(band_position),
                         signal    |-> get_signal_from_value("rainbow_bands",
                                                             RInt(band_position))]>>

\* fetch_rainbow_bands after fetch_with_retry returned `fetched`
rainbow_finish(fetched) ==
    LET parsed == IF fetched.ok /\ fetched.data # <<>>
                  THEN parse_rainbow(fetched.data) ELSE <<>>
    IN  IF parsed # <<>>
        THEN [result |-> parsed[1], cached |-> TRUE]
        ELSE [result |-> FallbackRainbow, cached |-> FALSE]

\* the placeholder of fetch_pi_cycle for a day of the month
pi_cycle_indicator(day_of_month) ==
    LET synthetic_ratio == RAdd(Rat(5, 10), Rat(day_of_month, 100))
    IN  [name      |-> "Pi Cycle",
         timestamp |-> "now",
         value     |-> synthetic_ratio,
         signal    |-> get_signal_from_value("pi_cycle", synthetic_ratio)]

----------------------------------------------------------------------------
(* Specification of the indicator refresh: the fetchers of one process, and *)
(* get_signal_from_value and fetch_with_retry called directly               *)

SignalValues ==
    {RInt(-1), RInt(0), Rat(3, 10), Rat(31, 100), Rat(1, 2), Rat(51, 100), Rat(79, 100),
     Rat(8, 10), Rat(94, 100), Rat(95, 100), RInt(1), RInt(2), RInt(3), RInt(6), RInt(7),
     RInt(8), RInt(30), RInt(31), RInt(69), RInt(70), RInt(100)}

\* band boundaries and prices in thousands
BandEdges == <<10, 20, 30, 40, 50, 60, 70, 80>>
Prices    == {5, 10, 15, 20, 25, 35, 45, 55, 65, 75, 85}

\* a CSV row: the date, the price and one cell per boundary
Row(date, price, edges) == <<date, <<price>>>> \o [i \in 1..Len(edges) |-> <<edges[i]>>]

Header == <<"Date", <<>>, <<>>, <<>>, <<>>, <<>>, <<>>, <<>>, <<>>, <<>>>>

\* bodies the rainbow endpoint answers with, as the rows csv.reader yields
RainbowBodies ==
    {<<>>, <<Header>>}
        \cup {<<Header, Row("2025-05-20", p, BandEdges)>> : p \in Prices}
        \cup { <<Header, Row("2025-05-19", 15, BandEdges), Row("2025-05-20", 65, BandEdges)>>,
               <<Header, Row("2025-05-20", 55, SubSeq(BandEdges, 1, 5))>>,
               <<Header, Row("2025-05-20", 55, <<80, 70, 60, 50, 40, 30, 20, 10>>)>>,
               <<Header, Row("n/a", 55, BandEdges)>>,
               <<Header, <<"2025-05-20", <<55>>, <<10>>, <<>>, <<30>>>> >>,
               <<Header, <<"2025-05-20">> >>,
               <<Header, <<>> >> }

FailureReplies ==
    { [kind |-> "status", status |-> 500, retry_after |-> <<>>],
      [kind |-> "status", status |-> 429, retry_after |-> <<>>],
      [kind |-> "status", status |-> 429, retry_after |-> <<"120">>],
      [kind |-> "status", status |-> 429, retry_after |-> <<"Wed, 21 Oct 2026 07:28:00 GMT">>],
      [kind |-> "error", error |-> "ClientError"],
      [kind |-> "error", error |-> "TimeoutError"] }

RainbowReplies ==
    FailureReplies
        \cup {[kind |-> "ok", content_type |-> "text/csv", body |-> b] : b \in RainbowBodies}

DirectReplies ==
    FailureReplies
        \cup { [kind |-> "ok", content_type |-> "application/json", body |-> <<[score |-> 87]>>],
               [kind |-> "ok", content_type |-> "application/json", body |-> <<>>],
               [kind |-> "ok", content_type |-> "text/plain", body |-> "text"] }

DaysOfMonth == 1..31

RefreshInit == RefreshIdle /\ RefreshAlone

\* a fetch_with_retry call is between two GETs
InFlight == iFetch.kind = "running"

\* the process can make its next fetcher call
CanFetch ==
    /\ iTask \in {"none", "rainbow_bands", "pi_cycle"}
    /\ iFetch.kind \notin {"running", "raised"}
    /\ iCalls < MaxFetches

\* get_signal_from_value(name, value) called directly
GetSignal(name, value) ==
    /\ iTask = "none"
    /\ iTask' = "signal"
    /\ iArgs' = <<name, value>>
    /\ iSignal' = get_signal_from_value(name, value)
    /\ UNCHANGED <<iDay, iCache, iMaxRetries, iRetry, iReply, iFetch, iResult, iCalls,
                   restOfRefresh>>

\* fetch_with_retry(session, url, max_retries) called directly, up to its first GET
CallFetchWithRetry(max_retries) ==
    /\ iTask = "none"
    /\ iTask' = "fetch_with_retry"
    /\ iMaxRetries' = max_retries
    /\ iRetry' = 0
    /\ iFetch' = fetch_start(max_retries)
    /\ UNCHANGED <<iDay, iCache, iReply, iArgs, iSignal, iResult, iCalls, restOfRefresh>>

\* fetch_rainbow_bands up to its first GET: the cache lookup, then fetch_with_retry
FetchRainbowBands ==
    /\ CanFetch
    /\ iTask' = "rainbow_bands"
    /\ iCalls' = iCalls + 1
    /\ IF "rainbow_bands" \in DOMAIN iCache
       THEN /\ iResult' = <<iCache["rainbow_bands"]>>
            /\ UNCHANGED <<iMaxRetries, iRetry, iReply, iFetch>>
       ELSE /\ iResult' = <<>>
            /\ iMaxRetries' = DefaultMaxRetries
            /\ iRetry' = 0
            /\ iReply' = <<>>
            /\ iFetch' = fetch_start(DefaultMaxRetries)
    /\ UNCHANGED <<iDay, iCache, iArgs, iSignal, restOfRefresh>>

\* one GET of fetch_with_retry answered by `reply`, up to the next GET or, when
\* the call returns to fetch_rainbow_bands, up to the end of that fetcher
Attempt(reply) ==
    /\ InFlight
    /\ reply \in (IF iTask = "rainbow_bands" THEN RainbowReplies ELSE DirectReplies)
    /\ iRetry' = iRetry + 1
    /\ iReply' = <<reply>>
    /\ iFetch' = fetch_attempt(reply, iRetry, iMaxRetries)
    /\ IF iTask = "rainbow_bands" /\ iFetch'.kind = "returned"
       THEN LET fin == rainbow_finish(iFetch')
            IN  /\ iResult' = <<fin.result>>
                /\ IF fin.cached
                   THEN /\ iCache' = Put(iCache, "rainbow_bands", fin.result)
                        /\ iArgs' = <<"rainbow_bands", fin.result.value>>
                        /\ iSignal' = fin.result.signal
                   ELSE UNCHANGED <<iCache, iArgs, iSignal>>
       ELSE UNCHANGED <<iResult, iCache, iArgs, iSignal>>
    /\ UNCHANGED <<iDay, iTask, iMaxRetries, iCalls, restOfRefresh>>

\* fetch_pi_cycle on a day of the month
FetchPiCycle(day_of_month) ==
    /\ CanFetch
    /\ iTask' = "pi_cycle"
    /\ iCalls' = iCalls + 1
    /\ IF "pi_cycle" \in DOMAIN iCache
       THEN /\ iResult' = <<iCache["pi_cycle"]>>
            /\ UNCHANGED <<iDay, iCache, iArgs, iSignal>>
       ELSE LET result == pi_cycle_indicator(day_of_month)
            IN  /\ iDay' = day_of_month
                /\ iResult' = <<result>>
                /\ iCache' = Put(iCache, "pi_cycle", result)
                /\ iArgs' = <<"pi_cycle", result.value>>
                /\ iSignal' = result.signal
    /\ UNCHANGED <<iMaxRetries, iRetry, iReply, iFetch, restOfRefresh>>

RefreshNext ==
    \/ \E name \in SignalNames, value \in SignalValues : GetSignal(name, value)
    \/ \E max_retries \in 0..MaxRetries : CallFetchWithRetry(max_retries)
    \/ FetchRainbowBands
    \/ \E reply \in RainbowReplies \cup DirectReplies : Attempt(reply)
    \/ \E day_of_month \in DaysOfMonth : FetchPiCycle(day_of_month)

SpecRefresh == RefreshInit /\ [][RefreshNext]_vars

\* the thresholds <<bearish from, bullish up to>> in hundredths that apply to
\* an indicator name, names differing only in letter case taken as one
ThresholdsFor(name) ==
    IF name \in {"cbbi", "CBBI", "Cbbi"} THEN <<80, 30>>
    ELSE IF name \in {"rainbow_bands", "Rainbow_Bands"} THEN <<700, 200>>
    ELSE IF name \in {"pi_cycle", "Pi_Cycle"} THEN <<95, 50>>
    ELSE <<7000, 3000>>

\* C22: get_signal_from_value returns exactly one of bullish, neutral, bearish:
\* bearish at or above the upper threshold of the indicator, bullish at or
\* below its lower threshold, neutral in between (cbbi 0.8 / 0.3,
\* rainbow_bands 7 / 2, pi_cycle 0.95 / 0.5, any other name 70 / 30).
C22_SignalThresholds ==
    iArgs # <<>> =>
        LET t == ThresholdsFor(iArgs[1])
            n == iArgs[2][1] * 100
            d == iArgs[2][2]
        IN  /\ iSignal \in {"bullish", "neutral", "bearish"}
            /\ iSignal = "bearish" <=> n >= t[1] * d
            /\ iSignal = "bullish" <=> n <= t[2] * d
            /\ iSignal = "neutral" <=> (t[2] * d < n /\ n < t[1] * d)

C22_Witness ==
    /\ iTask = "signal"
    /\ iArgs = <<"cbbi", Rat(8, 10)>>
    /\ iSignal = "bearish"

\* fetch_rainbow_bands has just built its indicator from a latest row with
\* eight increasing boundaries
RainbowRead ==
    /\ iTask = "rainbow_bands" /\ iResult # <<>>
    /\ iReply # <<>> /\ iReply[1].kind = "ok"
    /\ iResult[1] # FallbackRainbow
    /\ LET row == iReply[1].body[Len(iReply[1].body)]
       IN  /\ Len(row) = 10
           /\ \A i \in 3..9 : row[i][1] < row[i + 1][1]

\* the number of boundaries of the latest row the price lies above
BoundariesBelowPrice ==
    LET row == iReply[1].body[Len(iReply[1].body)]
    IN  Cardinality({i \in 3..10 : row[2][1] > row[i][1]})

\* C23 as stated: for a latest row with increasing boundaries and a price
\* above exactly k of them, the indicator value is k + 1.
C23_BandOfPrice ==
    RainbowRead => iResult[1].value = RInt(BoundariesBelowPrice + 1)

\* C24 as stated: the Pi Cycle placeholder has 0.5 <= value <= 0.8 on every
\* day of the month and its signal is bullish, neutral or bearish.
C24_PiCycleRange ==
    (iTask = "pi_cycle" /\ iResult # <<>>) =>
        LET value == iResult[1].value
        IN  /\ value[2] <= 2 * value[1]
            /\ 5 * value[1] <= 4 * value[2]
            /\ iResult[1].signal \in {"bullish", "neutral", "bearish"}

----------------------------------------------------------------------------
(* Risk engine: the override flag over repeated passes *)

\* C25: after any sequence of passes over changing indicator sets,
\* risk_override is true exactly when risk_flags is non-empty, and
\* risk_override true implies action de-risk.
C25_OverrideIffFlags ==
    rPasses >= 1 =>
        /\ rConsensus["risk_override"] \in BOOLEAN
        /\ rConsensus["risk_override"] <=> rConsensus["risk_flags"] # <<>>
        /\ rConsensus["risk_override"] => rConsensus["action"] = "de-risk"

C25_Witness ==
    /\ rPasses = 2
    /\ rBefore["risk_override"] = TRUE
    /\ rConsensus["risk_override"] = FALSE
    /\ rConsensus["risk_flags"] = <<>>
    /\ rConsensus["action"] = "de-risk"


----------------------------------------------------------------------------
(* base_agent.py under floating-point rounding                             *)
(*                                                                         *)
(* The exact rationals above leave out that every Python float operation   *)
(* rounds its result to the nearest binary float (ties to even).  The      *)
(* definitions below repeat the voter's arithmetic with that rounding, on  *)
(* a significand of FloatBits bits; a Python float has 53.  FloatBits is   *)
(* odd, as 53 is, so that 1/3 rounds downwards as it does in a double.     *)

FloatBits == 7     \* bits of the significand kept by the rounded arithmetic

RECURSIVE Pow2(_)
Pow2(k) == IF k = 0 THEN 1 ELSE 2 * Pow2(k - 1)

\* <<n, d, e>> with n/d in [2^(FloatBits-1), 2^FloatBits) and n/d * 2^e the value given
RECURSIVE Normalise(_, _, _)
Normalise(n, d, e) ==
    IF n >= d * Pow2(FloatBits) THEN Normalise(n, 2 * d, e + 1)
    ELSE IF n < d * Pow2(FloatBits - 1) THEN Normalise(2 * n, d, e - 1)
    ELSE <<n, d, e>>

\* the float nearest to the rational x, ties to the even significand
Fl(x) ==
    IF x[1] = 0 THEN RInt(0)
    ELSE LET s  == IF x[1] < 0 THEN -1 ELSE 1
             t  == Normalise(Abs(x[1]), x[2], 0)
             q  == t[1] \div t[2]
             r  == t[1] % t[2]
             m  == IF 2 * r > t[2] \/ (2 * r = t[2] /\ q % 2 = 1) THEN q + 1 ELSE q
         IN  IF t[3] >= 0 THEN Rat(s * m * Pow2(t[3]), 1)
             ELSE Rat(s * m, Pow2(-t[3]))

FAdd(x, y) == Fl(RAdd(x, y))     \* x + y
FMul(x, y) == Fl(RMul(x, y))     \* x * y
FDiv(x, y) == Fl(RDiv(x, y))     \* x / y

\* sum(...) over a sequence of floats: 0 + s[1] + s[2] + ..., left to right
RECURSIVE FSumFrom(_, _)
FSumFrom(acc, s) == IF s = <<>> THEN acc ELSE FSumFrom(FAdd(acc, s[1]), Tail(s))

FSum(s) == FSumFrom(RInt(0), s)

\* the subsequence of `order` made of the keys of d: the iteration order of d
RECURSIVE KeysInOrder(_, _)
KeysInOrder(d, order) ==
    IF order = <<>> THEN <<>>
    ELSE IF order[1] \in DOMAIN d THEN <<order[1]>> \o KeysInOrder(d, Tail(order))
    ELSE KeysInOrder(d, Tail(order))

\* equal_weight = 1.0 / len(self.indicators)
float_EqualWeights(indicators) ==
    LET equal_weight == FDiv(RInt(1), RInt(Cardinality(DOMAIN indicators)))
    IN  [name \in DOMAIN indicators |-> equal_weight]

\* weight_signals(self) in floats: [weights |-> self.weights after the call,
\*                                  ret     |-> the mapping returned]
float_weight_signals(weights, indicators) ==
    LET w == IF weights = EmptyDict /\ indicators # EmptyDict
             THEN float_EqualWeights(indicators) ELSE weights
        weighted_scores ==
            [indicator_name \in ScoredNames(w, indicators) |->
                LET indicator  == indicators[indicator_name]
                    signal     == Get(indicator, "signal", "neutral")
                    raw_value  == Get(indicator, "value", DefaultRawValue)
                    base_score == BaseScore(signal)
                    weight     == w[indicator_name]
                IN  [raw_value      |-> raw_value,
                     signal         |-> signal,
                     base_score     |-> base_score,
                     weight         |-> weight,
                     weighted_score |-> FMul(RInt(base_score), weight)]]
    IN  [weights |-> w, ret |-> weighted_scores]

\* calculate_composite_score in floats; `order` is the iteration order of the
\* mapping, which is the order of self.weights
float_calculate_composite_score(weighted_signals, order) ==
    IF weighted_signals = EmptyDict THEN RInt(50)
    ELSE LET keys         == KeysInOrder(weighted_signals, order)
             total_weight ==
                 FSum([i \in 1..Len(keys) |-> weighted_signals[keys[i]]["weight"]])
         IN  IF total_weight = RInt(0) THEN RInt(50)
             ELSE LET weighted_sum ==
                          FSum([i \in 1..Len(keys) |->
                                   weighted_signals[keys[i]]["weighted_score"]])
                      composite    == FDiv(weighted_sum, total_weight)
                  IN  ClampScore(composite)

(* One rule-based vote in floats: weight, score, decide *)

\* the orders a dict over the indicator names can be iterated in
NameOrders ==
    {o \in [1..Cardinality(IndicatorNames) -> IndicatorNames] :
        \A i, j \in DOMAIN o : i # j => o[i] # o[j]}

FloatIndicatorRecords ==
    {[name |-> "indicator", value |-> 65, signal |-> s] :
        s \in {"bullish", "bearish", "neutral"}}

\* weights as a specification file declares them: 0, 0.3, 0.4, 1.0, -0.5
FloatDeclaredWeights ==
    {RInt(0), Fl(Rat(3, 10)), Fl(Rat(4, 10)), RInt(1), Fl(Rat(-1, 2))}

FloatSpecs ==
    {[name |-> "Test Agent", weights |-> w] :
        w \in Dicts(IndicatorNames, FloatDeclaredWeights)}
        \cup {[name |-> "Test Agent"]}

FloatInit ==
    /\ aSpec \in FloatSpecs
    /\ aIndicators \in Dicts(IndicatorNames, FloatIndicatorRecords)
    /\ aWeights = InitialWeights(aSpec)
    /\ aWeighted = <<>> /\ aScore = <<>> /\ aArg = <<>> /\ aAction = ""
    /\ aCalls = 0
    /\ aPc = "new"
    /\ AgentAlone

\* weighted_signals = self.weight_signals(); score = self.calculate_composite_score(...);
\* action = self.determine_action(score)
RuleBasedVote(order) ==
    /\ aPc = "new"
    /\ LET r     == float_weight_signals(aWeights, aIndicators)
           score == float_calculate_composite_score(r.ret, order)
       IN  /\ aWeights' = r.weights
           /\ aWeighted' = r.ret
           /\ aScore' = score
           /\ aArg' = score
           /\ aAction' = determine_action(score)
    /\ aCalls' = aCalls + 1
    /\ aPc' = "done"
    /\ UNCHANGED <<aSpec, aIndicators, restOfAgent>>

FloatNext == \E order \in NameOrders : RuleBasedVote(order)

SpecFloat == FloatInit /\ [][FloatNext]_vars

\* the voter has voted, all its weights are non-negative and the available
\* indicators it scores carry a positive weight in total
NonNegativeVote ==
    /\ aPc = "done"
    /\ \A n \in DOMAIN aWeights : RGe(aWeights[n], RInt(0))
    /\ \E n \in DOMAIN aWeighted : RLt(RInt(0), aWeighted[n]["weight"])

\* the scored indicators with a positive weight
PositivelyWeighted == {n \in DOMAIN aWeighted : RLt(RInt(0), aWeighted[n]["weight"])}

\* C26: a rule-based voter whose weights are all non-negative, with a positive
\* total over the available indicators, gets a composite score within
\* [25, 75]; it votes STRONG_BUY exactly when every positively weighted
\* available indicator is bullish and STRONG_SELL exactly when every one of
\* them is bearish.
C26_ScoreWithinBaseScores ==
    NonNegativeVote =>
        /\ RLe(RInt(25), aScore) /\ RLe(aScore, RInt(75))
        /\ aAction = "STRONG_BUY"
              <=> \A n \in PositivelyWeighted : aWeighted[n]["signal"] = "bullish"
        /\ aAction = "STRONG_SELL"
              <=> \A n \in PositivelyWeighted : aWeighted[n]["signal"] = "bearish"


----------------------------------------------------------------------------
(* The persisted indicator set: refresh_indicators.save_indicator writes it, *)
(* run_agent.load_indicators and risk_engine.load_indicators read it         *)

IndicatorDirs == {"cbbi", "rainbow_bands", "pi_cycle"}

\* name.lower().replace(' ', '_'); a lower-case name without spaces is unchanged
NormalizedName(name) ==
    CASE name \in {"CBBI", "Cbbi"} -> "cbbi"
      [] name = "Rainbow Bands"     -> "rainbow_bands"
      [] name = "Pi Cycle"          -> "pi_cycle"
      [] OTHER                      -> name

\* dir_name.replace('_', ' ').title()
DisplayName(dir_name) ==
    CASE dir_name = "cbbi"          -> "Cbbi"
      [] dir_name = "rainbow_bands" -> "Rainbow Bands"
      [] dir_name = "pi_cycle"      -> "Pi Cycle"

\* refresh_indicators.save_indicator: [raised |-> ValueError?, files |-> the files after]
save_indicator(files, indicator) ==
    IF ~({"name", "timestamp", "value"} \subseteq DOMAIN indicator)
    THEN [raised |-> TRUE, files |-> files]
    ELSE [raised |-> FALSE,
          files  |-> Put(files, NormalizedName(indicator["name"]), <<indicator>>)]

\* run_agent.load_indicators(date): every parsable file, keyed by its 'name'
\* field, by the directory name when it has none
run_agent_load_indicators(files) ==
    LET loaded   == {d \in DOMAIN files : files[d] # <<>>}
        KeyOf(d) == Get(files[d][1], "name", d)
    IN  [k \in {KeyOf(d) : d \in loaded} |->
            files[CHOOSE d \in loaded : KeyOf(d) = k][1]]

\* risk_engine.load_indicator(indicator_name, date): <<>> for None
load_indicator(files, indicator_name) ==
    LET normalized_name == NormalizedName(indicator_name)
    IN  IF normalized_name \notin DOMAIN files THEN <<>>
        ELSE files[normalized_name]

\* risk_engine.load_indicators(date): every file that loads to a non-empty
\* dict, keyed by the display name made from the directory name
risk_engine_load_indicators(files) ==
    LET Loaded(d) == load_indicator(files, DisplayName(d))
        kept == {d \in DOMAIN files : Loaded(d) # <<>> /\ Loaded(d)[1] # EmptyDict}
    IN  [k \in {DisplayName(d) : d \in kept} |->
            Loaded(CHOOSE d \in kept : DisplayName(d) = k)[1]]

\* the indicators the refresh stage produces, below and at their risk thresholds
FetchedIndicators ==
    {[name |-> "CBBI", timestamp |-> "t", value |-> v, signal |-> "neutral"] :
        v \in {CbbiThreshold - 1, CbbiThreshold}}
    \cup {[name |-> "Rainbow Bands", timestamp |-> "t", value |-> v, signal |-> "neutral"] :
        v \in {RainbowThreshold - 1, RainbowThreshold}}
    \cup {[name |-> "Pi Cycle", timestamp |-> "t", value |-> v, signal |-> "neutral"] :
        v \in {PiCycleThreshold - 1, PiCycleThreshold}}

\* files found in data/indicators before the refresh: unparsable, an empty
\* document, a document without a name
StaleFiles == {<<>>, <<EmptyDict>>, <<[value |-> 0, signal |-> "neutral"]>>}

LoadInit ==
    /\ dFiles \in Dicts(IndicatorDirs, StaleFiles)
    /\ dVoter = <<>> /\ dRisk = <<>>
    /\ LoadAlone

\* the refresh stage saves one indicator; it runs before the agents and the risk engine
SaveIndicator(indicator) ==
    /\ dVoter = <<>> /\ dRisk = <<>>
    /\ dFiles' = save_indicator(dFiles, indicator).files
    /\ dFiles' # dFiles
    /\ UNCHANGED <<dVoter, dRisk, restOfLoad>>

\* an agent run loads the indicators of the day
VoterLoad ==
    /\ dVoter = <<>>
    /\ dVoter' = <<run_agent_load_indicators(dFiles)>>
    /\ UNCHANGED <<dFiles, dRisk, restOfLoad>>

\* the risk engine loads the indicators of the day
RiskLoad ==
    /\ dRisk = <<>>
    /\ dRisk' = <<risk_engine_load_indicators(dFiles)>>
    /\ UNCHANGED <<dFiles, dVoter, restOfLoad>>

LoadNext ==
    \/ \E indicator \in FetchedIndicators : SaveIndicator(indicator)
    \/ VoterLoad
    \/ RiskLoad

SpecLoad == LoadInit /\ [][LoadNext]_vars

\* the risk flags apply_risk_overrides raises on an indicator map
FlagsOn(indicators) ==
    apply_risk_overrides(aggregate_votes(<<Vote("a", 50, "HOLD")>>, DefaultActionMap),
                         indicators, <<DefaultActionMap>>).ret["risk_flags"]

\* C27: read from the same indicator files, run_agent.load_indicators and
\* risk_engine.load_indicators return maps with the same key set, and the
\* voters' map triggers the same risk checks as the risk engine's map when
\* handed to apply_risk_overrides.
C27_SameKeys ==
    dVoter # <<>> /\ dRisk # <<>> =>
        /\ DOMAIN dVoter[1] = DOMAIN dRisk[1]
        /\ FlagsOn(dVoter[1]) = FlagsOn(dRisk[1])


----------------------------------------------------------------------------
(* Agent runs of one date (run_agent.py), then load_agent_outputs           *)

\* agent_name.replace(' ', '_').lower()
OutputDir(agent_name) ==
    CASE agent_name \in {"Test Agent", "test_agent"} -> "test_agent"
      [] agent_name = "Macro Bull"                    -> "macro_bull"
      [] agent_name = "Quant"                         -> "quant"

\* save_output adds the metadata to the output dict (run_agent.py:186-188)
WithMetadata(agent_name, output) ==
    Put(Put(Put(output, "agent_name", agent_name), "date", "d"), "timestamp", "t")

\* names of the specifications in data/agents
AgentNames == {"Test Agent", "test_agent", "Macro Bull", "Quant"}

\* what an agent's analyze() may return
AnalyzeOutputs ==
    {[score |-> RInt(s), action |-> a, confidence |-> Rat(8, 10), rationale |-> "text"] :
        <<s, a>> \in {<<70, "BUY">>, <<30, "SELL">>}}

RunInit ==
    /\ oPc = [n \in AgentNames |-> "idle"]
    /\ oOutput = [n \in AgentNames |-> <<>>]
    /\ oFiles = EmptyDict
    /\ oLoaded = <<>>
    /\ RunAlone

\* run_agent up to output = agent.analyze()
Analyze(agent_name, output) ==
    /\ oLoaded = <<>>
    /\ oPc[agent_name] = "idle"
    /\ oOutput' = [oOutput EXCEPT ![agent_name] = <<output>>]
    /\ oPc' = [oPc EXCEPT ![agent_name] = "analyzed"]
    /\ UNCHANGED <<oFiles, oLoaded, restOfRun>>

\* save_output up to open(output_path, 'w'), which truncates the file
OpenOutput(agent_name) ==
    /\ oPc[agent_name] = "analyzed"
    /\ oOutput' = [oOutput EXCEPT
                     ![agent_name] = <<WithMetadata(agent_name, oOutput[agent_name][1])>>]
    /\ oFiles' = Put(oFiles, OutputDir(agent_name), <<>>)
    /\ oPc' = [oPc EXCEPT ![agent_name] = "opened"]
    /\ UNCHANGED <<oLoaded, restOfRun>>

\* json.dump(output, f) and the close of the file; while another run has the
\* same file open the bytes of the two may mix into an unparsable file
DumpOutput(agent_name) ==
    /\ oPc[agent_name] = "opened"
    /\ \E content \in
            IF \E other \in AgentNames \ {agent_name} :
                   oPc[other] = "opened" /\ OutputDir(other) = OutputDir(agent_name)
            THEN {oOutput[agent_name], <<>>}
            ELSE {oOutput[agent_name]} :
          oFiles' = Put(oFiles, OutputDir(agent_name), content)
    /\ oPc' = [oPc EXCEPT ![agent_name] = "saved"]
    /\ UNCHANGED <<oOutput, oLoaded, restOfRun>>

\* the aggregation stage, after the runs: load_agent_outputs(date)
LoadOutputs ==
    /\ oLoaded = <<>>
    /\ \A n \in AgentNames : oPc[n] \in {"idle", "saved"}
    /\ \E n \in AgentNames : oPc[n] = "saved"
    /\ LET dirs == SetToSeq(DOMAIN oFiles)
       IN  oLoaded' = <<load_agent_outputs([i \in 1..Len(dirs) |-> oFiles[dirs[i]]])>>
    /\ UNCHANGED <<oPc, oOutput, oFiles, restOfRun>>

RunNext ==
    \/ \E n \in AgentNames, output \in AnalyzeOutputs : Analyze(n, output)
    \/ \E n \in AgentNames : OpenOutput(n)
    \/ \E n \in AgentNames : DumpOutput(n)
    \/ LoadOutputs

SpecRun == RunInit /\ [][RunNext]_vars

\* the agents that ran
Ran == {n \in AgentNames : oPc[n] = "saved"}

\* C28: agents with distinct names run for the same date, in any order or in
\* parallel, each leave their own output file: the aggregation stage then
\* loads exactly one vote per agent that ran, the vote that agent saved.
C28_OneVotePerAgent ==
    oLoaded # <<>> =>
        /\ Len(oLoaded[1]) = Cardinality(Ran)
        /\ \A n \in Ran :
              \E i \in 1..Len(oLoaded[1]) : oLoaded[1][i] = oOutput[n][1]


----------------------------------------------------------------------------
(* fetch_with_retry: attempts, result and exceptions *)

\* the last GET of the fetch_with_retry call was answered with status 200
LastReplyOk == iReply # <<>> /\ iReply[1].kind = "ok"

\* C29: fetch_with_retry makes at most max_retries GET attempts; it returns
\* (True, body) at the first answer with status 200, making no further attempt,
\* and (False, None) exactly when all max_retries attempts failed (a status
\* other than 200, a client error or a timeout); no failure raises out of it.
C29_BoundedRetries ==
    iFetch.kind # "none" =>
        /\ iRetry <= iMaxRetries
        /\ iFetch.kind # "raised"
        /\ LastReplyOk => iFetch.kind = "returned" /\ iFetch.ok
        /\ iFetch.kind = "returned" =>
              /\ iFetch.ok <=> LastReplyOk
              /\ ~iFetch.ok => iRetry = iMaxRetries /\ iFetch.data = PyNone


----------------------------------------------------------------------------
(* post_to_discord.py: post_file.  A text is modelled by its length.        *)

MessageLimit == 2000     \* if len(content) > 2000
ChunkSize    == 1990     \* content[i:i+1990]

\* len(str(k)) for k >= 0
RECURSIVE Digits(_)
Digits(k) == IF k < 10 THEN 1 ELSE 1 + Digits(k \div 10)

\* len(f"**Part {i}/{n}**\n")
HeaderLen(i, n) == 7 + Digits(i) + 1 + Digits(n) + 3

\* the lengths of [content[i:i+1990] for i in range(0, len(content), 1990)]
Chunks(content_len) ==
    LET n == (content_len + ChunkSize - 1) \div ChunkSize
    IN  [i \in 1..n |-> IF i * ChunkSize <= content_len THEN ChunkSize
                        ELSE content_len - (i - 1) * ChunkSize]

\* the lengths of the messages post_file builds for a content
Messages(content_len) ==
    IF content_len > MessageLimit
    THEN LET chunks == Chunks(content_len)
         IN  [i \in 1..Len(chunks) |-> HeaderLen(i, Len(chunks)) + chunks[i]]
    ELSE <<content_len>>

\* the first index of `outcomes` within 1..n holding a value in `stop`, n + 1 if none
RECURSIVE FirstOf(_, _, _, _)
FirstOf(outcomes, stop, i, n) ==
    IF i > n THEN n + 1
    ELSE IF outcomes[i] \in stop THEN i
    ELSE FirstOf(outcomes, stop, i + 1, n)

\* post_file(file_path, channel_id, use_webhook, webhook_url); outcomes[i] is
\* what sending the i-th message does: "ok" (True, status 204), "failed"
\* (False, another status) or "raised".  With the bot, `success and
\* post_message_bot(...)` sends nothing more once a chunk failed; an exception
\* ends the call with False.
post_file(file, use_webhook, outcomes) ==
    IF file = <<>> THEN [sent |-> <<>>, ret |-> FALSE]
    ELSE LET messages == Messages(file[1])
             n        == Len(messages)
             stop     == IF use_webhook \/ n = 1 THEN {"raised"} ELSE {"raised", "failed"}
             last     == FirstOf(outcomes, stop, 1, n)
             handed   == IF last > n THEN n ELSE last
         IN  [sent |-> SubSeq(messages, 1, handed),
              ret  |-> \A i \in 1..n : i <= handed /\ outcomes[i] = "ok"]

SendOutcomes == {"ok", "failed", "raised"}

\* at most this many messages are built for a content of MaxContent characters
MaxMessages == (MaxContent + ChunkSize - 1) \div ChunkSize

PostInit ==
    /\ pFile \in {<<>>} \cup {<<n>> : n \in 0..MaxContent}
    /\ pSent = <<>>
    /\ pResult = <<>>
    /\ PostAlone

PostFile(use_webhook, outcomes) ==
    /\ pResult = <<>>
    /\ LET r == post_file(pFile, use_webhook, outcomes)
       IN  /\ pSent' = r.sent
           /\ pResult' = <<r.ret>>
    /\ UNCHANGED <<pFile, restOfPost>>

PostNext ==
    \E use_webhook \in BOOLEAN, outcomes \in [1..MaxMessages -> SendOutcomes] :
        PostFile(use_webhook, outcomes)

SpecPost == PostInit /\ [][PostNext]_vars

\* C30: every message post_file sends is within the 2000-character limit: a
\* content of at most 2000 characters goes out as one message, the content
\* itself, and a longer content as chunks each of which, with its 'Part i/n'
\* header, is at most 2000 characters long.
C30_MessagesWithinLimit ==
    pResult # <<>> /\ pFile # <<>> =>
        /\ pFile[1] <= MessageLimit => pSent = <<pFile[1]>>
        /\ \A i \in 1..Len(pSent) : pSent[i] <= MessageLimit


====
